---------------------------- MODULE Spec2Model ----------------------------
(***************************************************************************)
(* A model of textract.py: the raid/hideout state machine of class Game,   *)
(* its persistence in hideout_data.json, the command dispatch and the      *)
(* combat and encounter code the raid commands call.                       *)
(*                                                                         *)
(* Units.  Weights are integers in 1/20 kg (the catalog's finest step is   *)
(* 0.05 kg), probabilities are integers in percent, and a draw of          *)
(* random.random() is an integer roll in 0..99 compared with the percent.  *)
(* Items are the unique instances of the item database, named by their     *)
(* name; Python's None is the value None.                                  *)
(*                                                                         *)
(* Writing hideout_data.json is taken to succeed (the IOError branch of    *)
(* _save_hideout_state is not modelled).                                    *)
(***************************************************************************)
EXTENDS Integers, Sequences, FiniteSets, TLC

VARIABLES
    player,         \* Game.player: the Player object
    map,            \* Game.map: per location its items, enemies, containers, visited
    game,           \* the scalar fields of Game and its hideout_storage / shop_inventory
    hideout_data,   \* the file hideout_data.json: absent (NoFile) or the saved record
    combat,         \* where control is: the top-level prompt, or inside attack_enemy's
                    \* loop (with the iterations of the loop so far)
    report          \* the last message the handler printed (its kind)

vars == <<player, map, game, hideout_data, combat, report>>

None == "None"
\* os.path.exists("hideout_data.json") is false
NoFile == [exists |-> FALSE]

-----------------------------------------------------------------------------
(* Bounds of the model.                                                    *)

\* The player issues state-changing raid commands only in the last
\* MaxActiveTurns turns of a raid; before that the player only looks around.
MaxActiveTurns == 2
\* Lifetime successful raids the model follows.
MaxRaidCount == 2
\* The raids (by lifetime count) whose early turns the player waits through;
\* a later raid is followed up to the first prompt.
MaxWaitedRaids == 1
\* Longest inventory list and longest storage list the model follows.
MaxCarried == 6
MaxStored == 18
\* Hideout commands of a behaviour that change what the player holds (a
\* purchase or sale, a storage transfer, an equip or unequip).
MaxHideoutEdits == 1
\* The number of enemies a spawn puts into a location (the code draws 1..3).
MaxScavs == 2
\* Iterations of attack_enemy's loop the model follows in one fight.
MaxRounds == 2
\* Turns of one raid in which the player's command leads into a fight.
MaxFightTurns == 1

-----------------------------------------------------------------------------
(* Program constants.                                                      *)

RAID_TIME == 100
MAX_HEALTH == 100
MAX_STAMINA == 100
MAX_INVENTORY_WEIGHT == 1000
MAX_HIDEOUT_STORAGE_WEIGHT == 4000
BASE_DAMAGE == 5
STARTING_ROUBLES == 10000
MOVE_STAMINA_COST == 15
REST_STAMINA == 40

-----------------------------------------------------------------------------
(* Sequence helpers: Python list operations.                               *)

Range(s) == {s[i] : i \in DOMAIN s}

\* list.remove(x): drops the first occurrence (the callers test `x in list` first).
RemoveFirst(s, x) ==
    IF x \notin Range(s) THEN s
    ELSE LET i == CHOOSE j \in DOMAIN s : s[j] = x /\ \A k \in 1..(j-1) : s[k] # x
         IN  SubSeq(s, 1, i-1) \o SubSeq(s, i+1, Len(s))

\* [i for i in s if i.name != x]
RemoveAll(s, x) == SelectSeq(s, LAMBDA y : y # x)

RECURSIVE SumSeq(_)
SumSeq(s) == IF s = <<>> THEN 0 ELSE s[1] + SumSeq(Tail(s))

Min(a, b) == IF a < b THEN a ELSE b
Max(a, b) == IF a > b THEN a ELSE b

-----------------------------------------------------------------------------
(* The item catalog (the part of _initialize_game_state's items the model  *)
(* uses).  kind: Weapon, Armor, Consumable or Item.                        *)

Wpn(d, w, r, v) ==
    [kind |-> "Weapon", weight |-> w, value |-> v, damage |-> d, range |-> r,
     defense |-> 0, slot |-> None, effect_type |-> None, effect_value |-> 0]
Arm(d, s, w, v) ==
    [kind |-> "Armor", weight |-> w, value |-> v, damage |-> 0, range |-> None,
     defense |-> d, slot |-> s, effect_type |-> None, effect_value |-> 0]
Con(e, ev, w, v) ==
    [kind |-> "Consumable", weight |-> w, value |-> v, damage |-> 0, range |-> None,
     defense |-> 0, slot |-> None, effect_type |-> e, effect_value |-> ev]
Itm(w, v) ==
    [kind |-> "Item", weight |-> w, value |-> v, damage |-> 0, range |-> None,
     defense |-> 0, slot |-> None, effect_type |-> None, effect_value |-> 0]

item_database ==
    [ akm          |-> Wpn(35, 90, "medium", 40000),
      pistol       |-> Wpn(15, 30, "short", 5000),
      svd          |-> Wpn(60, 140, "long", 80000),
      shotgun      |-> Wpn(40, 70, "very_short", 20000),
      kirasa_armor |-> Arm(10, "body", 160, 25000),
      gen4_armor   |-> Arm(15, "body", 240, 60000),
      kolpak_helmet|-> Arm(5, "head", 60, 15000),
      altyn_helmet |-> Arm(12, "head", 140, 85000),
      medkit       |-> Con("heal", 50, 10, 3000),
      painkillers  |-> Con("heal", 20, 4, 1500),
      bandage      |-> Con("cure_bleeding", 0, 2, 500),
      esmarch      |-> Con("cure_bleeding", 0, 2, 1200),
      wires        |-> Itm(4, 800),
      wrench       |-> Itm(20, 900),
      matches      |-> Itm(2, 100) ]

ItemNames == DOMAIN item_database

weight(i) == item_database[i].weight
IsWeapon(i) == item_database[i].kind = "Weapon"
IsArmor(i) == item_database[i].kind = "Armor"
IsConsumable(i) == item_database[i].kind = "Consumable"

WeightOf(s) == SumSeq([k \in DOMAIN s |-> weight(s[k])])
EquipWeight(e) == IF e = None THEN 0 ELSE weight(e)

-----------------------------------------------------------------------------
(* The world graph: three locations of _create_map with the exits between  *)
(* them, their range classes and extraction flags.                         *)

Locations == {"customs_main", "factory_gate_main", "crossroads_extract"}

exits ==
    [ customs_main       |-> [east |-> "factory_gate_main", west |-> "crossroads_extract"],
      factory_gate_main  |-> [west |-> "customs_main"],
      crossroads_extract |-> [east |-> "customs_main"] ]

range_type ==
    [ customs_main |-> "medium", factory_gate_main |-> "medium",
      crossroads_extract |-> "medium" ]

is_extraction_point == [l \in Locations |-> l = "crossroads_extract"]

\* "Dormitories" in loc_name or "Factory" in loc_name or "Resort" ... or "Military Base"
HighTraffic(l) == l = "factory_gate_main"

\* The order of self.map (a dict, in insertion order).
map_order == <<"customs_main", "factory_gate_main", "crossroads_extract">>

\* A Location as _create_map and _initialize_game_state leave it: no static
\* ground loot in these three, one Wooden Crate at the factory gate.
NewContainer(n, its) == [name |-> n, items |-> its, is_looted |-> FALSE]

InitialMap ==
    [l \in Locations |->
        [items |-> <<>>, enemies |-> <<>>, visited |-> FALSE,
         range_type |-> range_type[l],
         containers |-> IF l = "factory_gate_main"
                        THEN <<NewContainer("Wooden Crate", <<"bandage", "wires">>)>>
                        ELSE <<>>]]

shop_stock ==
    <<"medkit", "painkillers", "bandage", "esmarch", "pistol", "wires", "wrench">>

-----------------------------------------------------------------------------
(* class Player.                                                           *)

NewPlayer ==
    [current_health |-> MAX_HEALTH, damage |-> BASE_DAMAGE, is_alive |-> TRUE,
     inventory |-> <<>>, equipped_weapon |-> None, equipped_armor |-> None,
     equipped_helmet |-> None, current_stamina |-> MAX_STAMINA,
     is_bleeding |-> FALSE, roubles |-> 0]

get_current_weight(p) ==
    WeightOf(p.inventory) + EquipWeight(p.equipped_weapon)
      + EquipWeight(p.equipped_armor) + EquipWeight(p.equipped_helmet)

\* A faulty variant of the weight test: every item fits.
CanCarryAnything(p, item) == TRUE

CanCarry(p, item) == get_current_weight(p) + weight(item) <= MAX_INVENTORY_WEIGHT

\* add_item: appends when the weight allows, else leaves the player as it is.
add_item(p, item) ==
    IF CanCarry(p, item) THEN [p EXCEPT !.inventory = Append(@, item)] ELSE p

remove_item(p, item) == [p EXCEPT !.inventory = RemoveFirst(@, item)]

\* A faulty variant of equip_weapon: the damage value is left as it was.
equip_weapon_stale(p, weapon) ==
    IF ~IsWeapon(weapon) THEN p
    ELSE IF p.equipped_weapon # None
            /\ ~(get_current_weight(p) + weight(p.equipped_weapon) + weight(weapon)
                   - weight(p.equipped_weapon) <= MAX_INVENTORY_WEIGHT)
    THEN p
    ELSE LET inv1 == IF p.equipped_weapon # None
                     THEN Append(p.inventory, p.equipped_weapon) ELSE p.inventory
         IN  [p EXCEPT !.inventory = RemoveFirst(inv1, weapon),
                       !.equipped_weapon = weapon]

equip_weapon(p, weapon) ==
    IF ~IsWeapon(weapon) THEN p
    ELSE IF p.equipped_weapon # None
            /\ ~(get_current_weight(p) + weight(p.equipped_weapon) + weight(weapon)
                   - weight(p.equipped_weapon) <= MAX_INVENTORY_WEIGHT)
    THEN p
    ELSE LET inv1 == IF p.equipped_weapon # None
                     THEN Append(p.inventory, p.equipped_weapon) ELSE p.inventory
         IN  [p EXCEPT !.inventory = RemoveFirst(inv1, weapon),
                       !.equipped_weapon = weapon,
                       !.damage = item_database[weapon].damage]

equip_armor(p, armor) ==
    IF ~IsArmor(armor) THEN p
    ELSE IF item_database[armor].slot = "body"
    THEN IF p.equipped_armor # None
            /\ ~(get_current_weight(p) + weight(p.equipped_armor) + weight(armor)
                   - weight(p.equipped_armor) <= MAX_INVENTORY_WEIGHT)
         THEN p
         ELSE LET inv1 == IF p.equipped_armor # None
                          THEN Append(p.inventory, p.equipped_armor) ELSE p.inventory
              IN  [p EXCEPT !.inventory = RemoveFirst(inv1, armor),
                            !.equipped_armor = armor]
    ELSE IF item_database[armor].slot = "head"
    THEN IF p.equipped_helmet # None
            /\ ~(get_current_weight(p) + weight(p.equipped_helmet) + weight(armor)
                   - weight(p.equipped_helmet) <= MAX_INVENTORY_WEIGHT)
         THEN p
         ELSE LET inv1 == IF p.equipped_helmet # None
                          THEN Append(p.inventory, p.equipped_helmet) ELSE p.inventory
              IN  [p EXCEPT !.inventory = RemoveFirst(inv1, armor),
                            !.equipped_helmet = armor]
    ELSE p

\* Player.equip_weapon or Player.equip_armor by the item's class, as
\* equip_item and _equip_item_in_hideout dispatch.
equip(p, item) ==
    IF IsWeapon(item) THEN equip_weapon(p, item)
    ELSE IF IsArmor(item) THEN equip_armor(p, item)
    ELSE p

\* A faulty variant of heal: no clamp at max_health.
heal_unclamped(p, amount) ==
    [p EXCEPT !.current_health = @ + amount]

heal(p, amount) ==
    [p EXCEPT !.current_health = Min(MAX_HEALTH, @ + amount)]

restore_stamina(p, amount) ==
    [p EXCEPT !.current_stamina = Min(MAX_STAMINA, @ + amount)]

\* A faulty variant of use_consumable: a healing item also stops the
\* bleeding.
use_consumable_staunching(p, c) ==
    IF ~IsConsumable(c) \/ c \notin Range(p.inventory) THEN p
    ELSE LET e == item_database[c] IN
         IF e.effect_type = "heal"
         THEN [heal(p, e.effect_value) EXCEPT !.inventory = RemoveFirst(@, c),
                                              !.is_bleeding = FALSE]
         ELSE IF e.effect_type = "stamina_restore"
         THEN [restore_stamina(p, e.effect_value) EXCEPT !.inventory = RemoveFirst(@, c)]
         ELSE IF p.is_bleeding
         THEN [p EXCEPT !.is_bleeding = FALSE, !.inventory = RemoveFirst(@, c)]
         ELSE p

use_consumable(p, c) ==
    IF ~IsConsumable(c) \/ c \notin Range(p.inventory) THEN p
    ELSE LET e == item_database[c] IN
         IF e.effect_type = "heal"
         THEN [heal(p, e.effect_value) EXCEPT !.inventory = RemoveFirst(@, c)]
         ELSE IF e.effect_type = "stamina_restore"
         THEN [restore_stamina(p, e.effect_value) EXCEPT !.inventory = RemoveFirst(@, c)]
         ELSE IF p.is_bleeding
         THEN [p EXCEPT !.is_bleeding = FALSE, !.inventory = RemoveFirst(@, c)]
         ELSE p

\* int(x * 1.5) for x >= 0
TimesOneAndHalf(x) == (x * 3) \div 2

\* Player.take_damage(amount, hit_location); roll is the draw of
\* random.random() (percent) that decides the 25% bleeding chance.
\* A faulty variant of Player.take_damage: a defense greater than the damage
\* is not cut off at 0.
Player_take_damage_unbounded(p, amount, hit_location, roll) ==
    LET defense_value ==
            IF hit_location = "head" /\ p.equipped_helmet # None
            THEN item_database[p.equipped_helmet].defense
            ELSE IF hit_location = "body" /\ p.equipped_armor # None
            THEN item_database[p.equipped_armor].defense
            ELSE 0
        d0 == amount - defense_value
        effective_damage ==
            IF hit_location = "head" /\ p.equipped_helmet = None
            THEN TimesOneAndHalf(d0) ELSE d0
        h == p.current_health - effective_damage
        bleeds == effective_damage > 0
                  /\ (roll < 25 \/ (hit_location = "head" /\ p.equipped_helmet = None))
    IN  [p EXCEPT !.current_health = IF h <= 0 THEN 0 ELSE h,
                  !.is_alive = IF h <= 0 THEN FALSE ELSE @,
                  !.is_bleeding = IF bleeds THEN TRUE ELSE @]

\* A faulty variant of Player.take_damage: the bleeding roll counts also
\* when no damage came through.
Player_take_damage_grazed(p, amount, hit_location, roll) ==
    LET defense_value ==
            IF hit_location = "head" /\ p.equipped_helmet # None
            THEN item_database[p.equipped_helmet].defense
            ELSE IF hit_location = "body" /\ p.equipped_armor # None
            THEN item_database[p.equipped_armor].defense
            ELSE 0
        d0 == Max(0, amount - defense_value)
        effective_damage ==
            IF hit_location = "head" /\ p.equipped_helmet = None
            THEN TimesOneAndHalf(d0) ELSE d0
        h == p.current_health - effective_damage
        bleeds == roll < 25 \/ (hit_location = "head" /\ p.equipped_helmet = None)
    IN  [p EXCEPT !.current_health = IF h <= 0 THEN 0 ELSE h,
                  !.is_alive = IF h <= 0 THEN FALSE ELSE @,
                  !.is_bleeding = IF bleeds THEN TRUE ELSE @]

Player_take_damage(p, amount, hit_location, roll) ==
    LET defense_value ==
            IF hit_location = "head" /\ p.equipped_helmet # None
            THEN item_database[p.equipped_helmet].defense
            ELSE IF hit_location = "body" /\ p.equipped_armor # None
            THEN item_database[p.equipped_armor].defense
            ELSE 0
        d0 == Max(0, amount - defense_value)
        effective_damage ==
            IF hit_location = "head" /\ p.equipped_helmet = None
            THEN TimesOneAndHalf(d0) ELSE d0
        h == p.current_health - effective_damage
        bleeds == effective_damage > 0
                  /\ (roll < 25 \/ (hit_location = "head" /\ p.equipped_helmet = None))
    IN  [p EXCEPT !.current_health = IF h <= 0 THEN 0 ELSE h,
                  !.is_alive = IF h <= 0 THEN FALSE ELSE @,
                  !.is_bleeding = IF bleeds THEN TRUE ELSE @]

-----------------------------------------------------------------------------
(* class Enemy.  The fields raid and home are history fields, not fields   *)
(* of the program: the number of the raid (of this run of the program) in  *)
(* which the enemy was created, and the location whose list it was added   *)
(* to; and roll, the enemy_type_roll that chose the tier of an enemy a     *)
(* spawn created (-1 for the enemies of the map).                          *)

NewEnemy(name, max_health, damage, loot, w, a, h, hit) ==
    [name |-> name, max_health |-> max_health, current_health |-> max_health,
     damage |-> damage, defense |-> 0, is_alive |-> TRUE, loot_items |-> loot,
     equipped_weapon |-> w, equipped_armor |-> a, equipped_helmet |-> h,
     base_hit_chance |-> hit, raid |-> 0, home |-> None, roll |-> -1]

\* A faulty variant of Enemy.take_damage: a defense greater than the damage
\* is not cut off at 0.
Enemy_take_damage_unbounded(e, amount, hit_location) ==
    LET defense_value ==
            e.defense
            + (IF hit_location = "head" /\ e.equipped_helmet # None
               THEN item_database[e.equipped_helmet].defense
               ELSE IF hit_location = "body" /\ e.equipped_armor # None
               THEN item_database[e.equipped_armor].defense
               ELSE 0)
        d0 == amount - defense_value
        effective_damage ==
            IF hit_location = "head" /\ e.equipped_helmet = None THEN d0 * 2 ELSE d0
        h == e.current_health - effective_damage
    IN  [e EXCEPT !.current_health = IF h <= 0 THEN 0 ELSE h,
                  !.is_alive = IF h <= 0 THEN FALSE ELSE @]

Enemy_take_damage(e, amount, hit_location) ==
    LET defense_value ==
            e.defense
            + (IF hit_location = "head" /\ e.equipped_helmet # None
               THEN item_database[e.equipped_helmet].defense
               ELSE IF hit_location = "body" /\ e.equipped_armor # None
               THEN item_database[e.equipped_armor].defense
               ELSE 0)
        d0 == Max(0, amount - defense_value)
        effective_damage ==
            IF hit_location = "head" /\ e.equipped_helmet = None THEN d0 * 2 ELSE d0
        h == e.current_health - effective_damage
    IN  [e EXCEPT !.current_health = IF h <= 0 THEN 0 ELSE h,
                  !.is_alive = IF h <= 0 THEN FALSE ELSE @]

-----------------------------------------------------------------------------
(* class Game: construction and persistence.  The operators below take and *)
(* return `self`, the record of the program's objects:                     *)
(*   p the player, m the map, g the Game fields, f the save file,          *)
(*   out the kind of the last message printed.                             *)

Self == [p |-> player, m |-> map, g |-> game, f |-> hideout_data, out |-> report]

\* raids_begun, edits and fought are history fields, not fields of the
\* program: the calls of _start_raid in this run of the program, the hideout
\* commands so far (in this run and the earlier ones) that changed what the
\* player holds, and the turns of the current raid that led into a fight.
NewGame ==
    [in_hideout |-> TRUE, raid_timer |-> RAID_TIME, raid_count |-> 0,
     current_location |-> "customs_main", game_over |-> FALSE, game_won |-> FALSE,
     hideout_storage |-> <<>>, shop_inventory |-> shop_stock,
     raids_begun |-> 0, edits |-> 0, fought |-> 0]

\* A faulty variant of _save_hideout_state: the flag is ignored and the gear
\* is always written.
save_with_gear(s, save_equipped_items) ==
    [s EXCEPT !.f =
        [exists             |-> TRUE,
         player_roubles     |-> s.p.roubles,
         hideout_storage    |-> s.g.hideout_storage,
         player_health      |-> s.p.current_health,
         player_stamina     |-> s.p.current_stamina,
         player_is_bleeding |-> s.p.is_bleeding,
         raid_count         |-> s.g.raid_count,
         player_inventory   |-> s.p.inventory,
         equipped_weapon    |-> s.p.equipped_weapon,
         equipped_armor     |-> s.p.equipped_armor,
         equipped_helmet    |-> s.p.equipped_helmet]]

_save_hideout_state(s, save_equipped_items) ==
    [s EXCEPT !.f =
        [exists             |-> TRUE,
         player_roubles     |-> s.p.roubles,
         hideout_storage    |-> s.g.hideout_storage,
         player_health      |-> s.p.current_health,
         player_stamina     |-> s.p.current_stamina,
         player_is_bleeding |-> s.p.is_bleeding,
         raid_count         |-> s.g.raid_count,
         player_inventory   |-> IF save_equipped_items THEN s.p.inventory ELSE <<>>,
         equipped_weapon    |-> IF save_equipped_items THEN s.p.equipped_weapon ELSE None,
         equipped_armor     |-> IF save_equipped_items THEN s.p.equipped_armor ELSE None,
         equipped_helmet    |-> IF save_equipped_items THEN s.p.equipped_helmet ELSE None]]

\* One "Equip items" block of _load_hideout_state: the named item is taken
\* out of the loaded inventory and storage (every item of that name) and
\* equipped; without a name the slot is set to None.
LoadEquipped(s, name, slot) ==
    IF name # None /\ name \in ItemNames
    THEN LET p1 == [s.p EXCEPT !.inventory = RemoveAll(@, name)]
             st == RemoveAll(s.g.hideout_storage, name)
         IN  [s EXCEPT !.p = IF slot = "weapon" THEN equip_weapon(p1, name)
                             ELSE equip_armor(p1, name),
                       !.g.hideout_storage = st]
    ELSE [s EXCEPT !.p = IF slot = "weapon" THEN [@ EXCEPT !.equipped_weapon = None]
                         ELSE IF slot = "armor" THEN [@ EXCEPT !.equipped_armor = None]
                         ELSE [@ EXCEPT !.equipped_helmet = None]]

\* A record that the loader cannot read through carries the field `fails`:
\* "text" when the file is not JSON (json.load raises JSONDecodeError),
\* "document" when the JSON is not an object (the first .get raises), or
\* the key whose value has the wrong shape: a number where the loader
\* iterates a list of names, a list where it looks up a name.
Fault(d) == IF "fails" \in DOMAIN d THEN d.fails ELSE None

\* The two except blocks of _load_hideout_state.
StartFresh(s) ==
    [s EXCEPT !.p.roubles = STARTING_ROUBLES, !.g.hideout_storage = <<>>,
              !.g.raid_count = 0]

\* One statement inside the try block.  r.s is the state so far and r.raised
\* tells whether an earlier statement raised; the statement raises when it
\* reads the malformed key, and otherwise leaves the state loaded.
Try(r, key, loaded) ==
    IF r.raised THEN r
    ELSE IF Fault(r.s.f) = key THEN [r EXCEPT !.raised = TRUE]
    ELSE [r EXCEPT !.s = loaded]

\* The statements of the try block, each reading the file s.f.
LoadStats(s) ==
    [s EXCEPT !.p.roubles = s.f.player_roubles,
              !.p.current_health = s.f.player_health,
              !.p.current_stamina = s.f.player_stamina,
              !.p.is_bleeding = s.f.player_is_bleeding,
              !.g.raid_count = s.f.raid_count]
ClearInventory(s) == [s EXCEPT !.p.inventory = <<>>]
LoadInventory(r) ==
    Try(r, "player_inventory",
        [r.s EXCEPT !.p.inventory =
                       SelectSeq(r.s.f.player_inventory, LAMBDA n : n \in ItemNames)])
LoadStorage(r) ==
    Try(r, "hideout_storage",
        [r.s EXCEPT !.g.hideout_storage =
                       SelectSeq(r.s.f.hideout_storage, LAMBDA n : n \in ItemNames)])
LoadWeapon(r) ==
    Try(r, "equipped_weapon", LoadEquipped(r.s, r.s.f.equipped_weapon, "weapon"))
LoadArmor(r) ==
    Try(r, "equipped_armor", LoadEquipped(r.s, r.s.f.equipped_armor, "armor"))
LoadHelmet(r) ==
    Try(r, "equipped_helmet", LoadEquipped(r.s, r.s.f.equipped_helmet, "helmet"))

\* The end of the try statement: an except block runs if a statement raised.
Caught(r) == IF r.raised THEN StartFresh(r.s) ELSE r.s

_load_hideout_state(s) ==
    IF ~s.f.exists THEN s
    ELSE IF Fault(s.f) \in {"text", "document"} THEN StartFresh(s)
    ELSE Caught(LoadHelmet(LoadArmor(LoadWeapon(LoadStorage(LoadInventory(
             [s |-> ClearInventory(LoadStats(s)), raised |-> FALSE]))))))

\* The "BEAR PMC Starting Equipment" block.
StartingLoadout(p) ==
    LET p1 == equip_weapon(add_item(p, "akm"), "akm")
        p2 == equip_armor(add_item(p1, "kirasa_armor"), "kirasa_armor")
        p3 == equip_armor(add_item(p2, "kolpak_helmet"), "kolpak_helmet")
        p4 == add_item(add_item(p3, "medkit"), "medkit")
        p5 == add_item(add_item(add_item(p4, "bandage"), "esmarch"), "painkillers")
    IN  [p5 EXCEPT !.roubles = STARTING_ROUBLES]

\* The new-game test of _initialize_game_state and the block it guards.
StartingEquipment(s) ==
    IF s.g.raid_count = 0 /\ s.p.inventory = <<>> /\ s.p.equipped_weapon = None
       /\ s.p.equipped_armor = None /\ s.p.equipped_helmet = None
    THEN [s EXCEPT !.p = StartingLoadout(@)]
    ELSE s

_initialize_game_state(s) == StartingEquipment(_load_hideout_state(s))

\* Game.__init__ with the save file f on disk.
Game_init(f) ==
    _initialize_game_state(
        [p |-> NewPlayer, m |-> InitialMap, g |-> NewGame, f |-> f, out |-> "welcome"])

NoCombat == [active |-> FALSE, target |-> 0, queue |-> <<>>, cmd |-> None, rounds |-> 0]

\* Commit the record s as the next state.
Becomes(s, c) ==
    /\ player' = s.p
    /\ map' = s.m
    /\ game' = s.g
    /\ hideout_data' = s.f
    /\ report' = s.out
    /\ combat' = c

\* The first launch, on a machine without a save file.
Init ==
    LET s == Game_init(NoFile) IN
    /\ player = s.p
    /\ map = s.m
    /\ game = s.g
    /\ hideout_data = s.f
    /\ report = s.out
    /\ combat = NoCombat

\* The program is run again after it ended: Game() is built from the file.
Launch ==
    /\ game.game_over
    /\ Becomes([Game_init(hideout_data) EXCEPT !.g.edits = game.edits], NoCombat)

-----------------------------------------------------------------------------
(* Command resolution: handle_input's aliases and prefix completion.  A    *)
(* typed word is the tuple of its characters, so that str.startswith is    *)
(* computed; the argument after the first blank is kept as a token.        *)

w_attack == <<"a","t","t","a","c","k">>
w_drop == <<"d","r","o","p">>
w_equip == <<"e","q","u","i","p">>
w_examine == <<"e","x","a","m","i","n","e">>
w_extract == <<"e","x","t","r","a","c","t">>
w_flee == <<"f","l","e","e">>
w_get == <<"g","e","t">>
w_help == <<"h","e","l","p">>
w_inv == <<"i","n","v">>
w_inventory == <<"i","n","v","e","n","t","o","r","y">>
w_look == <<"l","o","o","k">>
w_move == <<"m","o","v","e">>
w_put == <<"p","u","t">>
w_quit == <<"q","u","i","t">>
w_remove == <<"r","e","m","o","v","e">>
w_reset == <<"r","e","s","e","t">>
w_rest == <<"r","e","s","t">>
w_search == <<"s","e","a","r","c","h">>
w_shop == <<"s","h","o","p">>
w_start_raid == <<"s","t","a","r","t","_","r","a","i","d">>
w_stats == <<"s","t","a","t","s">>
w_storage == <<"s","t","o","r","a","g","e">>
w_take == <<"t","a","k","e">>
w_use == <<"u","s","e">>

main_commands ==
    <<w_move, w_look, w_get, w_drop, w_equip, w_use, w_attack, w_inventory, w_stats, w_search, w_extract, w_help, w_quit, w_examine, w_rest, w_flee>>

hideout_commands ==
    <<w_shop, w_storage, w_start_raid, w_stats, w_inventory, w_help, w_quit, w_examine, w_put, w_take, w_reset, w_equip, w_remove>>

Cmd(a, x) == [action |-> a, arg |-> x, ambiguous |-> FALSE]

\* self.command_aliases: the typed line -> the command it stands for.
command_aliases(word) ==
    IF word = <<"n">> THEN Cmd(w_move, "north")
    ELSE IF word = <<"e">> THEN Cmd(w_move, "east")
    ELSE IF word = <<"s">> THEN Cmd(w_move, "south")
    ELSE IF word = <<"w">> THEN Cmd(w_move, "west")
    ELSE IF word = <<"n","e">> THEN Cmd(w_move, "northeast")
    ELSE IF word = <<"n","w">> THEN Cmd(w_move, "northwest")
    ELSE IF word = <<"s","e">> THEN Cmd(w_move, "southeast")
    ELSE IF word = <<"s","w">> THEN Cmd(w_move, "southwest")
    ELSE IF word = <<"i","n","v">> THEN Cmd(w_inventory, "")
    ELSE IF word = <<"s","t","a","t">> THEN Cmd(w_stats, "")
    ELSE IF word = <<"e","x">> THEN Cmd(w_examine, "")
    ELSE IF word = <<"h">> THEN Cmd(w_help, "")
    ELSE IF word = <<"q">> THEN Cmd(w_quit, "")
    ELSE IF word = <<"l">> THEN Cmd(w_look, "")
    ELSE IF word = <<"s","r">> THEN Cmd(w_start_raid, "")
    ELSE IF word = <<"s","h">> THEN Cmd(w_shop, "")
    ELSE IF word = <<"s","t">> THEN Cmd(w_storage, "")
    ELSE Cmd(<<>>, "")

alias_keys ==
    {<<"n">>, <<"e">>, <<"s">>, <<"w">>, <<"n","e">>, <<"n","w">>, <<"s","e">>, <<"s","w">>, <<"i","n","v">>, <<"s","t","a","t">>, <<"e","x">>, <<"h">>, <<"q">>, <<"l">>, <<"s","r">>, <<"s","h">>, <<"s","t">>}

startswith(w, prefix) ==
    Len(prefix) <= Len(w) /\ SubSeq(w, 1, Len(prefix)) = prefix

\* The head of _handle_raid_commands and of _handle_hideout_commands: the
\* typed line (word, arg) against the mode's command list.
Resolve(commands, word, arg) ==
    IF arg = "" /\ word \in alias_keys THEN command_aliases(word)
    ELSE LET matching_commands == SelectSeq(commands, LAMBDA c : startswith(c, word)) IN
         IF Len(matching_commands) = 1 THEN Cmd(matching_commands[1], arg)
         ELSE IF Len(matching_commands) > 1
         THEN [action |-> word, arg |-> arg, ambiguous |-> TRUE]
         ELSE Cmd(word, arg)

-----------------------------------------------------------------------------
(* The draws of the random source the model follows.                       *)

\* random.random() in percent: one roll under every threshold of the code,
\* one between the thresholds, one above all of them.
Rolls == {0, 60, 99}

\* random.random() for the spawn decision (thresholds 15, 35, 40, 60): a roll
\* under all of them, and one that spawns only in an unvisited high-traffic
\* location.
SpawnRolls == {10, 50}

\* random.randint(-5, 5) of the player's damage, randint(-3, 3) of the enemy's,
\* randint(2, 5) of a bleeding tick.
PlayerDamageRolls == {5}
EnemyDamageRolls == {0}
BleedDraws == {5}

\* One enemy's draws in _spawn_random_enemies: the tier roll, and the values
\* drawn inside the tier's branch (name, health, damage, loot sample, gear).
ScavDraw ==
    [type_roll |-> 70, name |-> "Scav", health |-> 40, damage |-> 15,
     loot |-> <<>>, weapon |-> "pistol", armor |-> None, helmet |-> None]
EliteDraw ==
    [type_roll |-> 10, name |-> "USEC PMC", health |-> 150, damage |-> 35,
     loot |-> <<"wrench", "matches">>, weapon |-> "svd", armor |-> "gen4_armor",
     helmet |-> "altyn_helmet"]

ArmoredDraw ==
    [type_roll |-> 20, name |-> "Armored Scav", health |-> 70, damage |-> 18,
     loot |-> <<"matches">>, weapon |-> "akm", armor |-> "kirasa_armor",
     helmet |-> "kolpak_helmet"]

\* random.randint(1, 3) enemies, each with its draws: a Scav first, then
\* enemies of the top tier.
ScavDraws == {[k \in 1..Min(MaxScavs, 3) |-> IF k = 1 THEN ScavDraw ELSE EliteDraw]}

\* Tier rolls at and around the two thresholds, and the draws each of them
\* leads to.
TierRolls == {0, 10, 14, 15, 39, 40}
TierDraw(r) ==
    [(IF r < 15 THEN EliteDraw ELSE IF r < 40 THEN ArmoredDraw ELSE ScavDraw)
        EXCEPT !.type_roll = r]

\* One, two or three enemies, each with a tier roll of its own.
TierSequences ==
    UNION {[1..n -> {TierDraw(r) : r \in TierRolls}] : n \in 1..3}

-----------------------------------------------------------------------------
(* Encounter generator.                                                    *)

spawn_chance(loc, visited) ==
    (IF ~visited THEN 40 ELSE 15) + (IF HighTraffic(loc) THEN 20 ELSE 0)

\* A faulty variant of SpawnEnemy: the top tier takes the rolls up to 0.10
\* only.
SpawnEnemyRare(d) ==
    [(IF d.type_roll < 10
      THEN NewEnemy("Elite Scav", d.health, d.damage, Append(d.loot, d.weapon),
                    d.weapon, d.armor, d.helmet, 60)
      ELSE IF d.type_roll < 40
      THEN NewEnemy("Armored Scav", d.health, d.damage, Append(d.loot, d.weapon),
                    d.weapon, d.armor, d.helmet, 55)
      ELSE NewEnemy("Scav", d.health, d.damage, Append(d.loot, d.weapon),
                    d.weapon, d.armor, d.helmet, 45))
        EXCEPT !.roll = d.type_roll]

\* The branch of _spawn_random_enemies that enemy_type_roll selects.
SpawnEnemy(d) ==
    [(IF d.type_roll < 15
      THEN NewEnemy(d.name, d.health, d.damage, Append(d.loot, d.weapon),
                    d.weapon, d.armor, d.helmet, 60)
      ELSE IF d.type_roll < 40
      THEN NewEnemy("Armored Scav", d.health, d.damage, Append(d.loot, d.weapon),
                    d.weapon, d.armor, d.helmet, 55)
      ELSE NewEnemy("Scav", d.health, d.damage, Append(d.loot, d.weapon),
                    d.weapon, d.armor, d.helmet, 45))
        EXCEPT !.roll = d.type_roll]

\* A faulty variant of the generator's test: extraction points are not
\* skipped.
Eligible_anywhere(m, loc) == m[loc].enemies = <<>>

Eligible(m, loc) == m[loc].enemies = <<>> /\ ~is_extraction_point[loc]

\* The draws one run can consume: per location a spawn roll and, when the
\* roll is under the location's chance, the enemies' draws.
LocDraws(m, loc, rolls, scavs) ==
    IF ~Eligible(m, loc) THEN {[spawn_roll |-> 99, scavs |-> <<>>]}
    ELSE {[spawn_roll |-> r, scavs |-> <<>>] :
              r \in {x \in rolls : ~(x < spawn_chance(loc, m[loc].visited))}}
         \cup {[spawn_roll |-> r, scavs |-> sc] :
              r \in {x \in rolls : x < spawn_chance(loc, m[loc].visited)},
              sc \in scavs}

SpawnDraws(m, rolls, scavs) ==
    {[customs_main |-> a, factory_gate_main |-> b, crossroads_extract |-> c] :
        a \in LocDraws(m, "customs_main", rolls, scavs),
        b \in LocDraws(m, "factory_gate_main", rolls, scavs),
        c \in LocDraws(m, "crossroads_extract", rolls, scavs)}

MapDraws(m) == SpawnDraws(m, SpawnRolls, ScavDraws)

\* A faulty variant of _spawn_random_enemies: a location that gets enemies
\* counts as not visited again.
spawn_random_enemies_unvisiting(s, draws) ==
    [s EXCEPT !.m =
        [loc \in Locations |->
            IF Eligible(s.m, loc)
               /\ draws[loc].spawn_roll < spawn_chance(loc, s.m[loc].visited)
            THEN [s.m[loc] EXCEPT !.visited = FALSE, !.enemies =
                     [k \in DOMAIN draws[loc].scavs |->
                         [SpawnEnemy(draws[loc].scavs[k]) EXCEPT !.raid = s.g.raids_begun,
                                                                  !.home = loc]]]
            ELSE s.m[loc]]]

_spawn_random_enemies(s, draws) ==
    [s EXCEPT !.m =
        [loc \in Locations |->
            IF Eligible(s.m, loc)
               /\ draws[loc].spawn_roll < spawn_chance(loc, s.m[loc].visited)
            THEN [s.m[loc] EXCEPT !.enemies =
                     [k \in DOMAIN draws[loc].scavs |->
                         [SpawnEnemy(draws[loc].scavs[k]) EXCEPT !.raid = s.g.raids_begun,
                                                                  !.home = loc]]]
            ELSE s.m[loc]]]

display_location(s) ==
    [s EXCEPT !.m[s.g.current_location].visited = TRUE, !.out = "location"]

-----------------------------------------------------------------------------
(* Raid commands: the methods _handle_raid_commands dispatches to.         *)

Here(s) == s.g.current_location

Count(list, x) == Cardinality({k \in DOMAIN list : list[k] = x})

\* _fuzzy_find_item_in_lists for a typed name that is an item's full name:
\* one match is returned, several matches prompt for a number (pick) or
\* 'cancel', no match gives None.
_fuzzy_find_item_in_lists(list, name, pick) ==
    IF Count(list, name) = 1 THEN name
    ELSE IF Count(list, name) > 1 /\ pick THEN name
    ELSE None

\* The answers to the prompt: none is asked for unless several items match.
Picks(list, name) == IF Count(list, name) > 1 THEN BOOLEAN ELSE {TRUE}

get_item(s, arg, pick) ==
    LET found_item == _fuzzy_find_item_in_lists(s.m[Here(s)].items, arg, pick) IN
    IF found_item = None THEN [s EXCEPT !.out = "refused"]
    ELSE IF CanCarry(s.p, found_item)
    THEN [s EXCEPT !.p = add_item(@, found_item),
                   !.m[Here(s)].items = RemoveFirst(@, found_item),
                   !.out = "ok"]
    ELSE [s EXCEPT !.out = "refused"]

IsEquipped(p, item) ==
    item = p.equipped_weapon \/ item = p.equipped_armor \/ item = p.equipped_helmet

drop_item(s, arg, pick) ==
    LET found_item == _fuzzy_find_item_in_lists(s.p.inventory, arg, pick) IN
    IF found_item = None THEN [s EXCEPT !.out = "refused"]
    ELSE IF IsEquipped(s.p, found_item) THEN [s EXCEPT !.out = "refused"]
    ELSE [s EXCEPT !.p = remove_item(@, found_item),
                   !.m[Here(s)].items = Append(@, found_item),
                   !.out = "ok"]

equip_item(s, arg, pick) ==
    LET found_item == _fuzzy_find_item_in_lists(s.p.inventory, arg, pick) IN
    IF found_item = None THEN [s EXCEPT !.out = "refused"]
    ELSE [s EXCEPT !.p = equip(@, found_item), !.out = "ok"]

use_item(s, arg, pick) ==
    LET found_item == _fuzzy_find_item_in_lists(s.p.inventory, arg, pick) IN
    IF found_item = None THEN [s EXCEPT !.out = "refused"]
    ELSE [s EXCEPT !.p = use_consumable(@, found_item), !.out = "ok"]

rest_player(s) ==
    IF s.p.current_stamina = MAX_STAMINA THEN [s EXCEPT !.out = "ok"]
    ELSE [s EXCEPT !.p = restore_stamina(@, REST_STAMINA), !.out = "ok"]

\* The loop of search_container over the container's items.
RECURSIVE TakeAll(_, _, _)
TakeAll(p, items, left) ==
    IF items = <<>> THEN [p |-> p, left |-> left]
    ELSE IF CanCarry(p, Head(items))
    THEN TakeAll(add_item(p, Head(items)), Tail(items), left)
    ELSE TakeAll(p, Tail(items), Append(left, Head(items)))

search_container(s, arg) ==
    LET cs == s.m[Here(s)].containers
        hits == {k \in DOMAIN cs : cs[k].name = arg}
    IN  IF Cardinality(hits) # 1 THEN [s EXCEPT !.out = "refused"]
        ELSE LET k == CHOOSE x \in hits : TRUE
                 c == cs[k]
                 r == TakeAll(s.p, c.items, <<>>)
             IN  IF c.is_looted THEN [s EXCEPT !.out = "refused"]
                 ELSE IF c.items = <<>>
                 THEN [s EXCEPT !.m[Here(s)].containers[k].is_looted = TRUE,
                                !.out = "ok"]
                 ELSE [s EXCEPT !.p = r.p,
                                !.m[Here(s)].containers[k].items = r.left,
                                !.m[Here(s)].containers[k].is_looted = (r.left = <<>>),
                                !.out = "ok"]

\* Faulty variants of check_extraction: one that does not write the record,
\* one that does not look at the location's extraction flag.
extraction_unsaved(s) ==
    IF is_extraction_point[Here(s)] /\ s.m[Here(s)].enemies = <<>>
    THEN [s EXCEPT !.g.game_won = TRUE,
                   !.g.in_hideout = TRUE,
                   !.g.raid_count = @ + 1,
                   !.p.is_bleeding = FALSE,
                   !.p.current_health = MAX_HEALTH,
                   !.out = "extracted"]
    ELSE [s EXCEPT !.out = "extract_failed"]

extraction_anywhere(s) ==
    IF s.m[Here(s)].enemies = <<>>
    THEN _save_hideout_state(
             [s EXCEPT !.g.game_won = TRUE,
                       !.g.in_hideout = TRUE,
                       !.g.raid_count = @ + 1,
                       !.p.is_bleeding = FALSE,
                       !.p.current_health = MAX_HEALTH,
                       !.out = "extracted"],
             TRUE)
    ELSE [s EXCEPT !.out = "extract_failed"]

check_extraction(s) ==
    IF is_extraction_point[Here(s)]
    THEN IF s.m[Here(s)].enemies = <<>>
         THEN _save_hideout_state(
                  [s EXCEPT !.g.game_won = TRUE,
                            !.g.in_hideout = TRUE,
                            !.g.raid_count = @ + 1,
                            !.p.is_bleeding = FALSE,
                            !.p.current_health = MAX_HEALTH,
                            !.out = "extracted"],
                  TRUE)
         ELSE [s EXCEPT !.out = "extract_failed"]
    ELSE [s EXCEPT !.out = "extract_failed"]

\* run()'s check after handle_input returns.
health_check(s) ==
    IF s.p.current_health <= 0 THEN [s EXCEPT !.g.game_over = TRUE] ELSE s

\* A faulty variant of Finish: every command counts as a turn.
finish_counting_all(s, counts, fin) ==
    LET s1 == [s EXCEPT !.g.raid_timer = @ - 1] IN
    health_check(
        IF s1.g.raid_timer <= 0 THEN [s1 EXCEPT !.g.game_over = TRUE]
        ELSE IF s1.p.is_bleeding
        THEN [s1 EXCEPT !.p = Player_take_damage(@, fin.bleed, "body", fin.roll)]
        ELSE s1)

\* A faulty variant of Finish: the raid goes on when the countdown is used up.
finish_untimed(s, counts, fin) ==
    LET s1 == IF counts THEN [s EXCEPT !.g.raid_timer = @ - 1] ELSE s IN
    health_check(
        IF s1.p.is_bleeding
        THEN [s1 EXCEPT !.p = Player_take_damage(@, fin.bleed, "body", fin.roll)]
        ELSE s1)

\* The tail of _handle_raid_commands (the countdown and the bleeding tick)
\* followed by run()'s health check.  counts: valid_action_performed and
\* action != "quit"; fin: the draws of the bleeding tick.  out keeps the
\* message of the command itself.
Finish(s, counts, fin) ==
    LET s1 == IF counts THEN [s EXCEPT !.g.raid_timer = @ - 1] ELSE s IN
    health_check(
        IF counts /\ s1.g.raid_timer <= 0 THEN [s1 EXCEPT !.g.game_over = TRUE]
        ELSE IF s1.p.is_bleeding
        THEN [s1 EXCEPT !.p = Player_take_damage(@, fin.bleed, "body", fin.roll)]
        ELSE s1)

FinishDraws == [bleed : BleedDraws, roll : {99}]

-----------------------------------------------------------------------------
(* Combat: attack_enemy's loop, one combat_round per step.                 *)

\* A faulty variant of the table: the rows of the very short and the long
\* locations mirror each other.
range_modifier_mirrored(current_location_range, weapon_effective_range) ==
    IF current_location_range \in {"very_short", "long"}
    THEN (IF weapon_effective_range = current_location_range THEN 20
          ELSE IF weapon_effective_range \in {"very_short", "long"} THEN -15
          ELSE IF weapon_effective_range = "short" THEN 10 ELSE -5)
    ELSE IF current_location_range = "medium" /\ weapon_effective_range = "medium"
    THEN 10
    ELSE 0

\* The hit-chance table of combat_round, in percent.
range_modifier(current_location_range, weapon_effective_range) ==
    IF current_location_range = "very_short"
    THEN (IF weapon_effective_range = "very_short" THEN 20
          ELSE IF weapon_effective_range = "short" THEN 10
          ELSE IF weapon_effective_range = "medium" THEN -5
          ELSE IF weapon_effective_range = "long" THEN -15 ELSE 0)
    ELSE IF current_location_range = "short"
    THEN (IF weapon_effective_range = "very_short" THEN -10
          ELSE IF weapon_effective_range = "short" THEN 15
          ELSE IF weapon_effective_range = "medium" THEN 5
          ELSE IF weapon_effective_range = "long" THEN -10 ELSE 0)
    ELSE IF current_location_range = "medium"
    THEN (IF weapon_effective_range = "very_short" THEN -15
          ELSE IF weapon_effective_range = "short" THEN -5
          ELSE IF weapon_effective_range = "medium" THEN 10
          ELSE IF weapon_effective_range = "long" THEN 5 ELSE 0)
    ELSE IF current_location_range = "long"
    THEN (IF weapon_effective_range = "very_short" THEN -30
          ELSE IF weapon_effective_range = "short" THEN -20
          ELSE IF weapon_effective_range = "medium" THEN -10
          ELSE IF weapon_effective_range = "long" THEN 20 ELSE 0)
    ELSE 0

\* max(0.1, min(0.95, x)) in percent
ClampChance(x) == Max(10, Min(95, x))

final_hit_chance(s) ==
    ClampChance(75 + range_modifier(s.m[Here(s)].range_type,
                                    item_database[s.p.equipped_weapon].range))

enemy_final_hit_chance(s, e) ==
    ClampChance(e.base_hit_chance
                + (IF s.m[Here(s)].range_type = "very_short" THEN 10
                   ELSE IF s.m[Here(s)].range_type = "short" THEN 5
                   ELSE IF s.m[Here(s)].range_type = "long" THEN -10 ELSE 0))

\* The draws of one combat round: the enemy misses, or it aims for the head,
\* hits it and the wound bleeds.  A draw the round does not consume (the
\* player's location roll after a miss) is fixed, so that each outcome is
\* drawn once.
RoundDraws ==
    {d \in [pdmg : PlayerDamageRolls, hit : Rolls, sub : {0, 99},
            edmg : EnemyDamageRolls, ehit : {0, 99}, aim : {"head"},
            esub : {0}, bleed : {0}] :
        d.hit = 99 => d.sub = 0}

\* The enemy's turn of combat_round with the given chance to hit: a miss
\* returns at once; a hit aimed at the head lands there on the sub-roll
\* under 0.3 and on the body otherwise.
enemy_turn(p, e, chance, d) ==
    LET enemy_damage == e.damage + d.edmg
        actual_enemy_hit_location ==
            IF d.aim = "head" /\ d.esub < 30 THEN "head" ELSE "body"
    IN  IF d.ehit > chance THEN p
        ELSE restore_stamina(
                 Player_take_damage(p, IF actual_enemy_hit_location = "head"
                                       THEN enemy_damage * 2 ELSE enemy_damage,
                                    actual_enemy_hit_location, d.bleed), 5)

\* The counter-attack of _attempt_flee after a failed flee: the location is
\* the one random.choice returns.
counter_attack(p, e, d) ==
    restore_stamina(
        IF d.ehit < e.base_hit_chance
        THEN Player_take_damage(p, IF d.aim = "head"
                                   THEN (e.damage + d.edmg) * 2
                                   ELSE e.damage + d.edmg,
                                d.aim, d.bleed)
        ELSE p, 5)

\* A faulty variant of combat_round: the enemy takes its turn also after
\* the blow that killed it.
combat_round_through(s, k, action_choice, d) ==
    LET e == s.m[Here(s)].enemies[k]
        player_damage == s.p.damage + d.pdmg
        player_hit == IF action_choice = "head"
                      THEN d.hit < final_hit_chance(s) - 30
                      ELSE d.hit < final_hit_chance(s)
        actual_hit_location ==
            IF action_choice = "head" /\ d.sub < 40 THEN "head" ELSE "body"
        e1 == IF player_hit
              THEN Enemy_take_damage(e, IF actual_hit_location = "head"
                                        THEN player_damage * 2 ELSE player_damage,
                                     actual_hit_location)
              ELSE e
        s1 == [s EXCEPT !.m[Here(s)].enemies[k] = e1, !.out = "combat"]
        enemy_damage == e.damage + d.edmg
        actual_enemy_hit_location ==
            IF d.aim = "head" /\ d.esub < 30 THEN "head" ELSE "body"
    IN  IF d.ehit > enemy_final_hit_chance(s, e) THEN s1
        ELSE [s1 EXCEPT !.p = restore_stamina(
                  Player_take_damage(@, IF actual_enemy_hit_location = "head"
                                        THEN enemy_damage * 2 ELSE enemy_damage,
                                     actual_enemy_hit_location, d.bleed), 5)]

\* combat_round for the choices head and body, against the enemy at index k
\* of the current location.
combat_round(s, k, action_choice, d) ==
    LET e == s.m[Here(s)].enemies[k]
        player_damage == s.p.damage + d.pdmg
        player_hit == IF action_choice = "head"
                      THEN d.hit < final_hit_chance(s) - 30
                      ELSE d.hit < final_hit_chance(s)
        actual_hit_location ==
            IF action_choice = "head" /\ d.sub < 40 THEN "head" ELSE "body"
        e1 == IF player_hit
              THEN Enemy_take_damage(e, IF actual_hit_location = "head"
                                        THEN player_damage * 2 ELSE player_damage,
                                     actual_hit_location)
              ELSE e
        s1 == [s EXCEPT !.m[Here(s)].enemies[k] = e1, !.out = "combat"]
        enemy_damage == e.damage + d.edmg
        actual_enemy_hit_location ==
            IF d.aim = "head" /\ d.esub < 30 THEN "head" ELSE "body"
    IN  IF player_hit /\ ~e1.is_alive THEN s1
        ELSE [s1 EXCEPT !.p = enemy_turn(@, e, enemy_final_hit_chance(s, e), d)]

\* A faulty variant of remove_enemy: the enemy stays in the list.
remove_enemy_skipped(s, k) == s

\* Location.remove_enemy for the enemy at index k of the current location.
remove_enemy(s, k) ==
    [s EXCEPT !.m[Here(s)].enemies = SubSeq(@, 1, k - 1) \o SubSeq(@, k + 1, Len(@))]

_handle_enemy_loot(s, e) ==
    LET gear == SelectSeq(<<e.equipped_weapon, e.equipped_armor, e.equipped_helmet>>,
                          LAMBDA x : x # None)
    IN  [s EXCEPT !.m[Here(s)].items = @ \o gear \o e.loot_items]

\* The search at the head of attack_enemy: the first living enemy of that
\* name in the current location (0: none).
target_enemy(s, enemy_name) ==
    LET es == s.m[Here(s)].enemies
        hits == {k \in DOMAIN es : es[k].is_alive /\ es[k].name = enemy_name}
    IN  IF hits = {} THEN 0 ELSE CHOOSE k \in hits : \A j \in hits : k <= j

\* attack_enemy up to its loop, for each enemy still to engage: queue holds
\* the names move_player's loop has not reached yet (one name for the attack
\* command).  The result is the state and the control position: inside the
\* loop of the first fight that starts, or back in the handler.
RECURSIVE StartFights(_, _, _)
StartFights(s, queue, cmd) ==
    IF queue = <<>> \/ ~s.p.is_alive THEN [s |-> s, c |-> NoCombat]
    ELSE LET k == target_enemy(s, Head(queue)) IN
         IF k = 0 \/ s.p.equipped_weapon = None
         THEN StartFights([s EXCEPT !.out = "refused"], Tail(queue), cmd)
         ELSE [s |-> [s EXCEPT !.out = "combat"],
               c |-> [active |-> TRUE, target |-> k, queue |-> Tail(queue), cmd |-> cmd,
                      rounds |-> 0]]

\* Either control enters a fight, or the command handler runs to its end.
Conclude(s, queue, cmd, fin) ==
    LET r == StartFights(s, queue, cmd) IN
    IF r.c.active THEN Becomes(r.s, r.c)
    ELSE Becomes(Finish(r.s, TRUE, fin), NoCombat)

\* A move or attack command from the prompt: control enters the first fight,
\* or the handler runs to its end.
Engage(s, queue, cmd, fin) ==
    LET r == StartFights(s, queue, cmd) IN
    IF r.c.active
    THEN /\ s.g.fought < MaxFightTurns
         /\ Becomes([r.s EXCEPT !.g.fought = @ + 1], r.c)
    ELSE Becomes(Finish(r.s, TRUE, fin), NoCombat)

AtPrompt == ~game.game_over /\ ~combat.active
InRaid == AtPrompt /\ ~game.in_hideout
InHideout == AtPrompt /\ game.in_hideout
\* The turns of a raid in which the player does more than look around.
ActiveTurn == game.raid_timer <= MaxActiveTurns /\ game.raid_count < MaxWaitedRaids

\* A faulty variant of the loop of attack_enemy: it leaves the fight after
\* one round also when both fighters are still alive.
CombatRoundOnce ==
    /\ combat.active /\ combat.rounds < MaxRounds
    /\ \E action_choice \in {"head", "body"}, d \in RoundDraws, fin \in FinishDraws :
          LET s1 == combat_round(Self, combat.target, action_choice, d)
              e  == s1.m[Here(s1)].enemies[combat.target]
          IN  IF ~s1.p.is_alive
              THEN Conclude([s1 EXCEPT !.g.game_over = TRUE, !.out = "killed"],
                            combat.queue, combat.cmd, fin)
              ELSE IF ~e.is_alive
              THEN Conclude(_handle_enemy_loot(remove_enemy(s1, combat.target), e),
                            combat.queue, combat.cmd, fin)
              ELSE Conclude(s1, combat.queue, combat.cmd, fin)

\* One iteration of attack_enemy's loop with the choice head or body, the
\* round's random values drawn from draws.
Round(draws) ==
    /\ combat.active /\ combat.rounds < MaxRounds
    /\ \E action_choice \in {"head", "body"}, d \in draws, fin \in FinishDraws :
          LET s1 == combat_round(Self, combat.target, action_choice, d)
              e  == s1.m[Here(s1)].enemies[combat.target]
          IN  IF ~s1.p.is_alive
              THEN Conclude([s1 EXCEPT !.g.game_over = TRUE, !.out = "killed"],
                            combat.queue, combat.cmd, fin)
              ELSE IF ~e.is_alive
              THEN Conclude(_handle_enemy_loot(remove_enemy(s1, combat.target), e),
                            combat.queue, combat.cmd, fin)
              ELSE Becomes(s1, [combat EXCEPT !.rounds = @ + 1])

CombatRound == Round(RoundDraws)

\* The draws of a flee attempt.
FleeDraws ==
    {d \in [flee : {0, 99}, edmg : EnemyDamageRolls, ehit : {0, 99},
            aim : {"head"}, bleed : {0}] :
        d.flee = 0 => d.ehit = 99}

\* A faulty variant of flee_chance: the chance of a full load, whatever is
\* carried.
flee_chance_unweighed(p) == 60 * MAX_INVENTORY_WEIGHT

\* max(0.1, 0.8 - weight / max_weight * 0.5), in units of 1 / (2 * max_weight)
\* percent, so that it is an integer.
flee_chance(p) ==
    Max(20 * MAX_INVENTORY_WEIGHT,
        160 * MAX_INVENTORY_WEIGHT - 100 * get_current_weight(p))

\* random.random() < flee_chance
FleeSucceeds(p, roll) == roll * MAX_INVENTORY_WEIGHT * 2 < flee_chance(p)

\* A faulty variant of _attempt_flee: the enemy fled from is taken off the
\* list of its location.
attempt_flee_routing(s, k, flee_direction, d, spawn) ==
    LET e == s.m[Here(s)].enemies[k] IN
    IF FleeSucceeds(s.p, d.flee)
    THEN LET s1 == [s EXCEPT !.g.current_location = exits[Here(s)][flee_direction],
                             !.m[Here(s)].enemies =
                                 SubSeq(@, 1, k - 1) \o SubSeq(@, k + 1, Len(@))]
             s2 == _spawn_random_enemies(s1, spawn)
         IN  [s |-> display_location([s2 EXCEPT !.p = restore_stamina(@, 10)]),
              fled |-> TRUE]
    ELSE [s |-> [s EXCEPT !.p = counter_attack(@, e, d), !.out = "combat"],
          fled |-> FALSE]

\* _attempt_flee towards flee_direction; fled tells whether it succeeded.
_attempt_flee(s, k, flee_direction, d, spawn) ==
    LET e == s.m[Here(s)].enemies[k] IN
    IF FleeSucceeds(s.p, d.flee)
    THEN LET s1 == [s EXCEPT !.g.current_location = exits[Here(s)][flee_direction]]
             s2 == _spawn_random_enemies(s1, spawn)
         IN  [s |-> display_location([s2 EXCEPT !.p = restore_stamina(@, 10)]),
              fled |-> TRUE]
    ELSE [s |-> [s EXCEPT !.p = counter_attack(@, e, d), !.out = "combat"],
          fled |-> FALSE]

\* One iteration of attack_enemy's loop with the choice flee, the random
\* values drawn from draws.
Flee(draws) ==
    /\ combat.active /\ combat.rounds < MaxRounds
    /\ \E flee_direction \in DOMAIN exits[game.current_location], d \in draws,
          fin \in FinishDraws :
        \E spawn \in IF FleeSucceeds(player, d.flee) THEN MapDraws(map)
                      ELSE {CHOOSE x \in MapDraws(map) : TRUE} :
          LET r == _attempt_flee(Self, combat.target, flee_direction, d, spawn) IN
          IF r.fled THEN Conclude(r.s, combat.queue, combat.cmd, fin)
          ELSE IF ~r.s.p.is_alive
          THEN Conclude([r.s EXCEPT !.g.game_over = TRUE, !.out = "killed"],
                        combat.queue, combat.cmd, fin)
          ELSE Becomes(r.s, [combat EXCEPT !.rounds = @ + 1])

CombatFlee == Flee(FleeDraws)

-----------------------------------------------------------------------------
(* The lines the player types.                                             *)

Typed(words, args) == {[word |-> w, arg |-> a] : w \in words, a \in args}

Lines ==
    Typed({w_move}, {"east", "up"})
    \cup Typed({<<"w">>, <<"s">>, w_look, <<"l">>, w_quit, <<"q">>, w_help,
                w_inv, <<"i">>, <<"s","t","a">>, w_rest, <<"r">>,
                w_flee, w_extract, <<"e","x","t">>, <<"e","x">>,
                w_start_raid, <<"s","r">>, w_shop, <<"s","h">>, w_storage, <<"s","t">>,
                w_put, w_take, w_reset, <<"x","y","z">>}, {""})
    \cup Typed({<<"g">>}, {"pistol"})
    \cup Typed({w_drop}, {"medkit"})
    \cup Typed({w_equip, <<"e">>}, {"pistol", "kirasa_armor"})
    \cup Typed({<<"u">>}, {"medkit", "bandage"})
    \cup Typed({w_attack}, {"Scav", "USEC PMC"})
    \cup Typed({w_search, <<"s">>}, {"Wooden Crate"})
    \cup Typed({w_examine, <<"e","x">>}, {"akm"})
    \cup Typed({w_remove}, {"kirasa_armor"})

raid(i) == Resolve(main_commands, i.word, i.arg)
hideout(i) == Resolve(hideout_commands, i.word, i.arg)

RaidLines(action) == {i \in Lines : ~raid(i).ambiguous /\ raid(i).action = action}
HideoutLines(action) == {i \in Lines : ~hideout(i).ambiguous /\ hideout(i).action = action}

Raid_move == RaidLines(w_move)
Raid_look == RaidLines(w_look)
Raid_get == RaidLines(w_get)
Raid_drop == RaidLines(w_drop)
Raid_equip == RaidLines(w_equip)
Raid_use == RaidLines(w_use)
Raid_attack == RaidLines(w_attack)
Raid_show == RaidLines(w_inventory) \cup RaidLines(w_inv) \cup RaidLines(w_stats)
                \cup RaidLines(w_examine)
Raid_search == RaidLines(w_search)
Raid_rest == RaidLines(w_rest)
Raid_flee == RaidLines(w_flee)
Raid_extract == RaidLines(w_extract)
Raid_help == RaidLines(w_help)
Raid_quit == RaidLines(w_quit)
Raid_ambiguous == {i \in Lines : raid(i).ambiguous}
Raid_invalid ==
    {i \in Lines : ~raid(i).ambiguous
                   /\ \A k \in DOMAIN main_commands : raid(i).action # main_commands[k]
                   /\ raid(i).action # w_inv}

Hideout_shop == HideoutLines(w_shop)
Hideout_storage == HideoutLines(w_storage)
Hideout_start_raid == HideoutLines(w_start_raid)
Hideout_show == HideoutLines(w_inventory) \cup HideoutLines(w_inv)
                   \cup HideoutLines(w_stats) \cup HideoutLines(w_examine)
                   \cup HideoutLines(w_help)
Hideout_put == HideoutLines(w_put)
Hideout_take == HideoutLines(w_take)
Hideout_equip == HideoutLines(w_equip)
Hideout_remove == HideoutLines(w_remove)
Hideout_reset == HideoutLines(w_reset)
Hideout_quit == HideoutLines(w_quit)
Hideout_ambiguous == {i \in Lines : hideout(i).ambiguous}
Hideout_invalid ==
    {i \in Lines : ~hideout(i).ambiguous
                   /\ \A k \in DOMAIN hideout_commands :
                         hideout(i).action # hideout_commands[k]
                   /\ hideout(i).action # w_inv}

-----------------------------------------------------------------------------
(* _handle_raid_commands: one action per branch, each with the tail of the *)
(* handler (Finish).                                                       *)

\* move_player up to its loop over the enemies of the arrival location;
\* queue: the names of the enemies that loop will engage.
move_player(s, direction, spawn) ==
    IF s.p.current_stamina < MOVE_STAMINA_COST
    THEN [s |-> [s EXCEPT !.out = "refused"], queue |-> <<>>]
    ELSE IF direction \in DOMAIN exits[Here(s)]
    THEN LET s1 == [s EXCEPT !.p.current_stamina = @ - MOVE_STAMINA_COST,
                             !.g.current_location = exits[Here(s)][direction]]
             s2 == _spawn_random_enemies(s1, spawn)
             s3 == display_location([s2 EXCEPT !.p = restore_stamina(@, 5)])
             es == s3.m[Here(s3)].enemies
         IN  [s |-> s3, queue |-> [k \in DOMAIN es |-> es[k].name]]
    ELSE [s |-> [s EXCEPT !.out = "refused"], queue |-> <<>>]

Walk(rolls, scavs) ==
    /\ InRaid /\ ActiveTurn
    /\ \E i \in Raid_move, fin \in FinishDraws :
        \E spawn \in SpawnDraws(map, rolls, scavs) :
          LET r == move_player(Self, raid(i).arg, spawn) IN
          Engage(r.s, r.queue, "move", fin)

Move == Walk(SpawnRolls, ScavDraws)

Look ==
    /\ InRaid /\ (ActiveTurn \/ game.raid_count < MaxWaitedRaids)
    /\ \E i \in Raid_look, fin \in FinishDraws :
          Becomes(Finish(display_location(Self), TRUE, fin), NoCombat)

Get ==
    /\ InRaid /\ ActiveTurn
    /\ \E i \in Raid_get, fin \in FinishDraws :
        \E pick \in Picks(map[game.current_location].items, raid(i).arg) :
          LET s1 == get_item(Self, raid(i).arg, pick) IN
          /\ Len(s1.p.inventory) <= MaxCarried
          /\ Becomes(Finish(s1, TRUE, fin), NoCombat)

Drop ==
    /\ InRaid /\ ActiveTurn
    /\ \E i \in Raid_drop, fin \in FinishDraws :
        \E pick \in Picks(player.inventory, raid(i).arg) :
          Becomes(Finish(drop_item(Self, raid(i).arg, pick), TRUE, fin), NoCombat)

Equip ==
    /\ InRaid /\ ActiveTurn
    /\ \E i \in Raid_equip, fin \in FinishDraws :
        \E pick \in Picks(player.inventory, raid(i).arg) :
          Becomes(Finish(equip_item(Self, raid(i).arg, pick), TRUE, fin), NoCombat)

Use ==
    /\ InRaid /\ ActiveTurn
    /\ \E i \in Raid_use, fin \in FinishDraws :
        \E pick \in Picks(player.inventory, raid(i).arg) :
          Becomes(Finish(use_item(Self, raid(i).arg, pick), TRUE, fin), NoCombat)

Attack ==
    /\ InRaid /\ ActiveTurn
    /\ \E i \in Raid_attack, fin \in FinishDraws :
          Engage(Self, <<raid(i).arg>>, "attack", fin)

\* inventory, stats and examine: they print and count as a turn.
Show ==
    /\ InRaid /\ ActiveTurn
    /\ \E i \in Raid_show, fin \in FinishDraws :
          Becomes(Finish([Self EXCEPT !.out = "shown"], TRUE, fin), NoCombat)

Search ==
    /\ InRaid /\ ActiveTurn
    /\ \E i \in Raid_search, fin \in FinishDraws :
          LET s1 == search_container(Self, raid(i).arg) IN
          /\ Len(s1.p.inventory) <= MaxCarried
          /\ Becomes(Finish(s1, TRUE, fin), NoCombat)

Rest ==
    /\ InRaid /\ ActiveTurn
    /\ \E i \in Raid_rest, fin \in FinishDraws :
          Becomes(Finish(rest_player(Self), TRUE, fin), NoCombat)

\* 'flee' typed at the raid prompt: a hint is printed, no turn is counted.
FleeOutsideCombat ==
    /\ InRaid /\ ActiveTurn
    /\ \E i \in Raid_flee, fin \in FinishDraws :
          Becomes(Finish([Self EXCEPT !.out = "hint"], FALSE, fin), NoCombat)

Extract ==
    /\ InRaid /\ ActiveTurn
    /\ \E i \in Raid_extract, fin \in FinishDraws :
          Becomes(Finish(check_extraction(Self), TRUE, fin), NoCombat)

RaidHelp ==
    /\ InRaid /\ ActiveTurn
    /\ \E i \in Raid_help, fin \in FinishDraws :
          Becomes(Finish([Self EXCEPT !.out = "help"], FALSE, fin), NoCombat)

RaidQuit ==
    /\ InRaid /\ ActiveTurn
    /\ \E i \in Raid_quit, fin \in FinishDraws :
          Becomes(Finish([Self EXCEPT !.g.game_over = TRUE, !.out = "quit"], FALSE, fin),
                  NoCombat)

\* The else branch: no raid command of that name.
RaidInvalid ==
    /\ InRaid /\ ActiveTurn
    /\ \E i \in Raid_invalid, fin \in FinishDraws :
          Becomes(Finish([Self EXCEPT !.out = "invalid"], FALSE, fin), NoCombat)

\* Several commands start with the typed word: the handler returns at once.
RaidAmbiguous ==
    /\ InRaid /\ ActiveTurn
    /\ \E i \in Raid_ambiguous :
          Becomes(health_check([Self EXCEPT !.out = "ambiguous"]), NoCombat)

-----------------------------------------------------------------------------
(* _handle_hideout_commands and the interfaces it opens.                   *)

\* int(value * 0.6)
sell_price(item) == (item_database[item].value * 6) \div 10

_buy_item(s, item_name_input, confirm) ==
    LET item_to_buy == _fuzzy_find_item_in_lists(s.g.shop_inventory, item_name_input, TRUE) IN
    IF item_to_buy = None THEN s
    ELSE IF s.p.roubles >= item_database[item_to_buy].value
            /\ CanCarry(s.p, item_to_buy) /\ confirm
    THEN [s EXCEPT !.p.roubles = @ - item_database[item_to_buy].value,
                   !.p.inventory = Append(@, item_to_buy),
                   !.g.shop_inventory = RemoveFirst(@, item_to_buy)]
    ELSE s

_sell_item(s, item_name_input, confirm) ==
    LET item_to_sell == _fuzzy_find_item_in_lists(s.p.inventory, item_name_input, TRUE) IN
    IF item_to_sell = None \/ ~confirm THEN s
    ELSE [s EXCEPT !.p.roubles = @ + sell_price(item_to_sell),
                   !.p.inventory = RemoveFirst(@, item_to_sell),
                   !.g.shop_inventory = Append(@, item_to_sell)]

\* The loop of _handle_shop_interface over the typed shop commands, up to 'exit'.
RECURSIVE _handle_shop_interface(_, _)
_handle_shop_interface(s, cmds) ==
    IF cmds = <<>> THEN [s EXCEPT !.out = "hideout"]
    ELSE LET c == Head(cmds) IN
         _handle_shop_interface(
             IF c.op = "buy" THEN _buy_item(s, c.item, c.confirm)
             ELSE IF c.op = "sell" THEN _sell_item(s, c.item, c.confirm)
             ELSE s,
             Tail(cmds))

\* The loop of _put_item_in_storage over the typed names, up to 'cancel'.
RECURSIVE _put_item_in_storage(_, _)
_put_item_in_storage(s, names) ==
    IF names = <<>> THEN [s EXCEPT !.out = "hideout"]
    ELSE LET item_to_put == _fuzzy_find_item_in_lists(s.p.inventory, Head(names), TRUE) IN
         _put_item_in_storage(
             IF item_to_put = None \/ IsEquipped(s.p, item_to_put) THEN s
             ELSE IF WeightOf(s.g.hideout_storage) + weight(item_to_put)
                       <= MAX_HIDEOUT_STORAGE_WEIGHT
             THEN [s EXCEPT !.p.inventory = RemoveFirst(@, item_to_put),
                            !.g.hideout_storage = Append(@, item_to_put)]
             ELSE s,
             Tail(names))

\* The loop of _take_item_from_storage, up to 'cancel' or an empty storage.
RECURSIVE _take_item_from_storage(_, _)
_take_item_from_storage(s, names) ==
    IF s.g.hideout_storage = <<>> \/ names = <<>> THEN [s EXCEPT !.out = "hideout"]
    ELSE LET item_to_take ==
                 _fuzzy_find_item_in_lists(s.g.hideout_storage, Head(names), TRUE) IN
         _take_item_from_storage(
             IF item_to_take = None THEN s
             ELSE IF CanCarry(s.p, item_to_take)
             THEN [s EXCEPT !.g.hideout_storage = RemoveFirst(@, item_to_take),
                            !.p.inventory = Append(@, item_to_take)]
             ELSE s,
             Tail(names))

\* The loop of _handle_storage_interface over the typed storage commands.
RECURSIVE _handle_storage_interface(_, _)
_handle_storage_interface(s, cmds) ==
    IF cmds = <<>> THEN [s EXCEPT !.out = "hideout"]
    ELSE LET c == Head(cmds) IN
         _handle_storage_interface(
             IF c.op = "put" THEN _put_item_in_storage(s, c.names)
             ELSE IF c.op = "take" THEN _take_item_from_storage(s, c.names)
             ELSE s,
             Tail(cmds))

_equip_item_in_hideout(s, item_name_input) ==
    LET found_item == _fuzzy_find_item_in_lists(s.p.inventory, item_name_input, TRUE) IN
    IF found_item = None THEN [s EXCEPT !.out = "hideout"]
    ELSE [s EXCEPT !.p = equip(@, found_item), !.out = "hideout"]

_remove_equipped_item_in_hideout(s, item_name_input) ==
    LET target_slot ==
            IF s.p.equipped_weapon # None /\ s.p.equipped_weapon = item_name_input
            THEN "weapon"
            ELSE IF s.p.equipped_armor # None /\ s.p.equipped_armor = item_name_input
            THEN "armor"
            ELSE IF s.p.equipped_helmet # None /\ s.p.equipped_helmet = item_name_input
            THEN "helmet"
            ELSE None
    IN  IF target_slot = None THEN [s EXCEPT !.out = "hideout"]
        ELSE IF get_current_weight(s.p) + weight(item_name_input) > MAX_INVENTORY_WEIGHT
        THEN [s EXCEPT !.out = "hideout"]
        ELSE IF target_slot = "weapon"
        THEN [s EXCEPT !.p.inventory = Append(@, item_name_input),
                       !.p.equipped_weapon = None,
                       !.p.damage = BASE_DAMAGE,
                       !.out = "hideout"]
        ELSE IF target_slot = "armor"
        THEN [s EXCEPT !.p.inventory = Append(@, item_name_input),
                       !.p.equipped_armor = None,
                       !.out = "hideout"]
        ELSE [s EXCEPT !.p.inventory = Append(@, item_name_input),
                       !.p.equipped_helmet = None,
                       !.out = "hideout"]

\* A faulty variant of _start_raid: the enemies of the last raid stay.
start_raid_uncleared(s, start, spawn) ==
    LET s1 == _save_hideout_state(s, FALSE)
        s2 == [s1 EXCEPT !.g.in_hideout = FALSE,
                         !.g.raid_timer = RAID_TIME,
                         !.g.raids_begun = @ + 1,
                         !.g.fought = 0,
                         !.p.current_health = MAX_HEALTH,
                         !.p.current_stamina = MAX_STAMINA,
                         !.p.is_bleeding = FALSE,
                         !.g.current_location = start,
                         !.m = [l \in Locations |-> [@[l] EXCEPT !.visited = FALSE]]]
    IN  display_location(_spawn_random_enemies(s2, spawn))

_start_raid(s, start, spawn) ==
    LET s1 == _save_hideout_state(s, FALSE)
        s2 == [s1 EXCEPT !.g.in_hideout = FALSE,
                         !.g.raid_timer = RAID_TIME,
                         !.g.raids_begun = @ + 1,
                         !.g.fought = 0,
                         !.p.current_health = MAX_HEALTH,
                         !.p.current_stamina = MAX_STAMINA,
                         !.p.is_bleeding = FALSE,
                         !.g.current_location = start,
                         !.m = [l \in Locations |->
                                   [@[l] EXCEPT !.visited = FALSE, !.enemies = <<>>]]]
    IN  display_location(_spawn_random_enemies(s2, spawn))

_reset_game_data(s, confirm) ==
    IF confirm
    THEN [s EXCEPT !.f = NoFile,
                   !.p = NewPlayer,
                   !.g.hideout_storage = <<>>,
                   !.g.raid_count = 0,
                   !.g.in_hideout = TRUE,
                   !.g.game_over = TRUE,
                   !.out = "reset"]
    ELSE [s EXCEPT !.out = "hideout"]

\* What the player types inside the shop and the storage before leaving.
ShopSessions ==
    {<<>>,
     <<[op |-> "buy", item |-> "bandage", confirm |-> TRUE]>>,
     <<[op |-> "buy", item |-> "bandage", confirm |-> FALSE]>>,
     <<[op |-> "sell", item |-> "esmarch", confirm |-> TRUE]>>,
     <<[op |-> "list", item |-> "", confirm |-> FALSE]>>}

NameLists == {<<>>, <<"painkillers">>, <<"akm">>}

StorageSessions ==
    {<<>>, <<[op |-> "put", names |-> <<"painkillers">>]>>,
     <<[op |-> "take", names |-> <<"painkillers">>]>>}

\* The history field edits, and the bounds on the hideout's lists.
Edited(s) ==
    IF s.p # player \/ s.g.hideout_storage # game.hideout_storage
       \/ s.g.shop_inventory # game.shop_inventory
    THEN [s EXCEPT !.g.edits = @ + 1] ELSE s

WithinBounds(s) ==
    /\ s.g.edits <= MaxHideoutEdits
    /\ Len(s.p.inventory) <= MaxCarried
    /\ Len(s.g.hideout_storage) <= MaxStored

Shop ==
    /\ InHideout
    /\ \E i \in Hideout_shop, cmds \in ShopSessions :
          LET s1 == Edited(_handle_shop_interface(Self, cmds)) IN
          /\ WithinBounds(s1)
          /\ Becomes(s1, NoCombat)

Storage ==
    /\ InHideout
    /\ \E i \in Hideout_storage, cmds \in StorageSessions :
          LET s1 == Edited(_handle_storage_interface(Self, cmds)) IN
          /\ WithinBounds(s1)
          /\ Becomes(s1, NoCombat)

Put ==
    /\ InHideout
    /\ \E i \in Hideout_put, names \in NameLists :
          LET s1 == Edited(_put_item_in_storage(Self, names)) IN
          /\ WithinBounds(s1)
          /\ Becomes(s1, NoCombat)

Take ==
    /\ InHideout
    /\ \E i \in Hideout_take, names \in NameLists :
          LET s1 == Edited(_take_item_from_storage(Self, names)) IN
          /\ WithinBounds(s1)
          /\ Becomes(s1, NoCombat)

HideoutEquip ==
    /\ InHideout
    /\ \E i \in Hideout_equip :
          LET s1 == Edited(_equip_item_in_hideout(Self, hideout(i).arg)) IN
          /\ WithinBounds(s1)
          /\ Becomes(s1, NoCombat)

HideoutRemove ==
    /\ InHideout
    /\ \E i \in Hideout_remove :
          LET s1 == Edited(_remove_equipped_item_in_hideout(Self, hideout(i).arg)) IN
          /\ WithinBounds(s1)
          /\ Becomes(s1, NoCombat)

StartRaid ==
    /\ InHideout
    /\ game.raid_count < MaxRaidCount
    /\ \E i \in Hideout_start_raid, start \in Locations :
        \E spawn \in MapDraws([l \in Locations |-> [map[l] EXCEPT !.enemies = <<>>,
                                                               !.visited = FALSE]]) :
          Becomes(_start_raid(Self, start, spawn), NoCombat)

\* inventory, stats, examine and help in the hideout: they only print.
HideoutShow ==
    /\ InHideout
    /\ \E i \in Hideout_show : Becomes([Self EXCEPT !.out = "shown"], NoCombat)

HideoutReset ==
    /\ InHideout
    /\ \E i \in Hideout_reset, confirm \in BOOLEAN :
          Becomes(_reset_game_data(Self, confirm), NoCombat)

HideoutQuit ==
    /\ InHideout
    /\ \E i \in Hideout_quit :
          Becomes([_save_hideout_state(Self, TRUE) EXCEPT !.g.game_over = TRUE,
                                                          !.out = "quit"],
                  NoCombat)

HideoutInvalid ==
    /\ InHideout
    /\ \E i \in Hideout_invalid : Becomes([Self EXCEPT !.out = "invalid"], NoCombat)

HideoutAmbiguous ==
    /\ InHideout
    /\ \E i \in Hideout_ambiguous : Becomes([Self EXCEPT !.out = "ambiguous"], NoCombat)

-----------------------------------------------------------------------------

Next ==
    \/ Launch
    \/ Move \/ Look \/ Get \/ Drop \/ Equip \/ Use \/ Attack \/ Show \/ Search \/ Rest
    \/ FleeOutsideCombat \/ Extract \/ RaidHelp \/ RaidQuit \/ RaidInvalid \/ RaidAmbiguous
    \/ CombatRound \/ CombatFlee
    \/ Shop \/ Storage \/ Put \/ Take \/ HideoutEquip \/ HideoutRemove \/ StartRaid
    \/ HideoutShow \/ HideoutReset \/ HideoutQuit \/ HideoutInvalid \/ HideoutAmbiguous

Spec == Init /\ [][Next]_vars

-----------------------------------------------------------------------------
(* Transfers of items by a player late in a career.  The behaviours of     *)
(* Spec start from a new game and stay within a few turns of it; the      *)
(* behaviours of SpecLoaded start from states the program reaches after    *)
(* many fights and purchases (elite gear picked up from the ground, bought *)
(* and stored), where the weight limits of add_item, _buy_item and the     *)
(* storage transfers come into play.                                        *)

\* A player holding the given gear.
Holding(weapon, armor, helmet, inventory) ==
    [NewPlayer EXCEPT !.equipped_weapon = weapon, !.equipped_armor = armor,
                      !.equipped_helmet = helmet, !.inventory = inventory,
                      !.damage = IF weapon = None THEN BASE_DAMAGE
                                 ELSE item_database[weapon].damage,
                      !.roubles = STARTING_ROUBLES]

\* The players of SpecLoaded: the starting loadout; loads of 970, 980 and
\* 1000 of the 1000 units (50 kg) the player can carry; and a player who
\* equipped the pistol of a Scav.
Loadouts ==
    { StartingLoadout(NewPlayer),
      Holding("akm", "kirasa_armor", "kolpak_helmet",
              <<"gen4_armor", "gen4_armor", "svd", "wrench", "wrench">>),
      Holding("akm", "kirasa_armor", "kolpak_helmet",
              <<"gen4_armor", "gen4_armor", "svd", "wrench", "pistol">>),
      Holding("akm", "gen4_armor", "altyn_helmet",
              <<"pistol", "svd", "svd", "kirasa_armor", "kolpak_helmet">>),
      Holding("pistol", "gen4_armor", "kolpak_helmet",
              <<"akm", "kirasa_armor", "medkit">>) }

\* Storage lists: empty, one item, and two lists at 3980 and 4000 of the
\* 4000 units (200 kg) the storage takes.
FullStorage == [k \in 1..17 |-> IF k = 17 THEN "svd" ELSE "gen4_armor"]
Storages == {<<>>, <<"painkillers">>, FullStorage, Append(FullStorage, "wrench")}

\* In the last turns of a first raid, at the location loc with the items
\* ground lying there and the enemies gone; the record is the checkpoint
\* _start_raid wrote.
LoadedRaid(p, loc, ground) ==
    LET s0 == [Game_init(NoFile) EXCEPT !.p = p]
        s1 == _start_raid(s0, loc, CHOOSE d \in MapDraws(InitialMap) : TRUE)
    IN  [s1 EXCEPT !.g.raid_timer = MaxActiveTurns,
                   !.m[loc].items = ground,
                   !.m = [l \in Locations |-> [@[l] EXCEPT !.enemies = <<>>]]]

\* At the hideout prompt after an extraction, the record written by it.
LoadedHideout(p, storage) ==
    LET s0 == [Game_init(NoFile) EXCEPT !.p = p,
                                        !.g.hideout_storage = storage,
                                        !.g.raid_count = 1,
                                        !.g.game_won = TRUE,
                                        !.out = "extracted"]
    IN  _save_hideout_state(s0, TRUE)

LoadedStates ==
    {LoadedRaid(p, loc, ground) :
        p \in Loadouts, loc \in {"customs_main", "factory_gate_main"},
        ground \in {<<"pistol", "pistol">>, <<"medkit">>}}
    \cup {LoadedHideout(p, storage) : p \in Loadouts, storage \in Storages}

InitLoaded ==
    \E s \in LoadedStates :
        /\ player = s.p
        /\ map = s.m
        /\ game = s.g
        /\ hideout_data = s.f
        /\ report = s.out
        /\ combat = NoCombat

\* The commands that move items between the ground, containers, the
\* player, the storage and the shop.
NextTransfer ==
    \/ Get \/ Drop \/ Equip \/ Search
    \/ Shop \/ Storage \/ Put \/ Take \/ HideoutEquip \/ HideoutRemove

SpecLoaded == InitLoaded /\ [][NextTransfer]_vars

-----------------------------------------------------------------------------
(* Launching with any hideout_data.json.  In the behaviours of Spec the    *)
(* file is what the program wrote; in those of SpecRecords the program     *)
(* starts from a file that was put in place, edited or damaged between two *)
(* runs, and may go on to quit from the hideout and be launched again.     *)

\* A file with the keys _save_hideout_state writes.
Record(roubles, health, bleeding, raids, inventory, storage, gear) ==
    [exists             |-> TRUE,
     player_roubles     |-> roubles,
     hideout_storage    |-> storage,
     player_health      |-> health,
     player_stamina     |-> health,
     player_is_bleeding |-> bleeding,
     raid_count         |-> raids,
     player_inventory   |-> inventory,
     equipped_weapon    |-> gear[1],
     equipped_armor     |-> gear[2],
     equipped_helmet    |-> gear[3]]

ReadableRecords ==
    { Record(r, h, b, c, inv, st, gear) :
        r \in {250, STARTING_ROUBLES}, h \in {40, MAX_HEALTH}, b \in BOOLEAN,
        c \in {0, 1}, inv \in {<<>>, <<"medkit", "pistol">>},
        st \in {<<>>, <<"bandage">>},
        gear \in {<<None, None, None>>, <<"akm", "kirasa_armor", "kolpak_helmet">>} }

\* The keys at which a value of the wrong shape makes the loader raise.
FaultyKeys ==
    {"player_inventory", "hideout_storage", "equipped_weapon", "equipped_armor",
     "equipped_helmet"}

\* The same files with one value of the wrong shape, a file holding JSON
\* that is not an object, and a file that is not JSON.
MalformedRecords ==
    { [k \in DOMAIN d \cup {"fails"} |-> IF k = "fails" THEN key ELSE d[k]] :
        d \in ReadableRecords, key \in FaultyKeys }
    \cup { [exists |-> TRUE, fails |-> "document"], [exists |-> TRUE, fails |-> "text"] }

Records == {NoFile} \cup ReadableRecords \cup MalformedRecords

\* No program is running and the file is any of Records.
InitRecords ==
    LET s == Game_init(NoFile) IN
    /\ player = s.p
    /\ map = s.m
    /\ game = [s.g EXCEPT !.game_over = TRUE]
    /\ hideout_data \in Records
    /\ report = "quit"
    /\ combat = NoCombat

NextRecords == Launch \/ HideoutQuit

SpecRecords == InitRecords /\ [][NextRecords]_vars

-----------------------------------------------------------------------------
(* Fights at every range.  The three locations of Spec are of the medium   *)
(* range class; the behaviours of SpecRanges start inside a fight at a     *)
(* location of any range class, with a weapon of any optimal range.        *)

RangeClasses == {"very_short", "short", "medium", "long"}

\* A weapon of each optimal-range class.
RangeWeapons == {"shotgun", "pistol", "akm", "svd"}

\* Inside attack_enemy's loop, before the first round of the first fight of
\* a first raid, against one enemy at a location of the given range class.
Arena(range, p, enemy) ==
    [p   |-> p,
     m   |-> [l \in Locations |->
                 IF l = "customs_main"
                 THEN [InitialMap[l] EXCEPT
                          !.range_type = range, !.visited = TRUE,
                          !.enemies = <<[enemy EXCEPT !.raid = 1, !.home = l]>>]
                 ELSE InitialMap[l]],
     g   |-> [NewGame EXCEPT !.in_hideout = FALSE, !.raid_timer = MaxActiveTurns,
                             !.raids_begun = 1, !.fought = 1],
     f   |-> _save_hideout_state([p |-> p, g |-> NewGame, f |-> NoFile], FALSE).f,
     out |-> "combat"]

\* The fighters: with each weapon, lightly packed and rested; and with the
\* AKM, with any armor and helmet, and a light pack and nearly rested or a
\* heavy pack and winded.
Marksmen ==
    { Holding(weapon, "kirasa_armor", None, <<"medkit">>) : weapon \in RangeWeapons }

Riflemen ==
    { [Holding("akm", armor, helmet, pack) EXCEPT
          !.current_stamina = IF Len(pack) = 1 THEN MAX_STAMINA - 2 ELSE 60] :
        armor \in {None, "kirasa_armor", "gen4_armor"},
        helmet \in {None, "kolpak_helmet"},
        pack \in {<<"medkit">>, <<"svd", "gen4_armor", "gen4_armor", "medkit">>} }

Fighters == Marksmen \cup Riflemen

\* The marksmen fight a Scav at every range class, and with the AKM or the
\* pistol also an enemy of the top tier; the riflemen fight either enemy at
\* a medium and at a close location.
Arenas ==
    { Arena(range, p, SpawnEnemy(ScavDraw)) :
        range \in RangeClasses \cup {"close"}, p \in Marksmen }
    \cup { Arena(range, p, SpawnEnemy(EliteDraw)) :
        range \in RangeClasses \cup {"close"},
        p \in {q \in Marksmen : q.equipped_weapon \in {"akm", "pistol"}} }
    \cup { Arena(range, p, enemy) :
        range \in {"medium", "close"}, p \in Riflemen,
        enemy \in {SpawnEnemy(ScavDraw), SpawnEnemy(EliteDraw)} }

InitRanges ==
    \E s \in Arenas :
        /\ player = s.p
        /\ map = s.m
        /\ game = s.g
        /\ hideout_data = s.f
        /\ report = s.out
        /\ combat = [active |-> TRUE, target |-> 1, queue |-> <<>>,
                     cmd |-> "attack", rounds |-> 0]

\* The draws of a round and of a flee attempt in the arenas: the player's
\* damage roll is the least or the greatest, the enemy's the least or the
\* middle one, the enemy aims
\* for the head (and hits it) or for the body, the bleeding roll is under or
\* over 25, and the flee roll is also one that a light pack passes and a
\* heavy one does not.
ArenaRoundDraws ==
    {d \in [pdmg : {-5, 5}, hit : Rolls, sub : {0, 99}, edmg : {-3, 0},
            ehit : {0, 99}, aim : {"head", "body"}, esub : {0}, bleed : {0, 99}] :
        /\ d.hit = 99 => d.pdmg = 5 /\ d.sub = 0
        /\ d.ehit = 99 => d.edmg = 0 /\ d.aim = "head" /\ d.bleed = 0}

ArenaFleeDraws ==
    {d \in [flee : {0, 50, 99}, edmg : {-3, 0}, ehit : {0, 99},
            aim : {"head", "body"}, bleed : {0, 99}] :
        d.ehit = 99 => d.edmg = 0 /\ d.aim = "head" /\ d.bleed = 0}

ArenaRound == Round(ArenaRoundDraws)
ArenaFlee == Flee(ArenaFleeDraws)

NextFight == ArenaRound \/ ArenaFlee

SpecRanges == InitRanges /\ [][NextFight]_vars

-----------------------------------------------------------------------------
(* Spawns of every size and tier.  The spawns of Spec are of two enemies,  *)
(* a Scav and one of the top tier; the behaviours of SpecSpawns start in a *)
(* raid at the start location and walk into locations where one to three   *)
(* enemies of any tiers have just been spawned.                            *)

Outset(p) ==
    [Arena("medium", p, SpawnEnemy(ScavDraw)) EXCEPT
        !.m["customs_main"].enemies = <<>>, !.g.fought = 0, !.out = "location"]

InitSpawns ==
    \E s \in {Outset(p) : p \in Riflemen} :
        /\ player = s.p
        /\ map = s.m
        /\ game = s.g
        /\ hideout_data = s.f
        /\ report = s.out
        /\ combat = NoCombat

\* A move with the spawn roll that spawns in an unvisited busy location
\* only.
Patrol == Walk({50}, TierSequences)

NextSpawns == Patrol

SpecSpawns == InitSpawns /\ [][NextSpawns]_vars

-----------------------------------------------------------------------------
(* Spawns of every statistic and gear.  The pools of _initialize_game_state *)
(* and the ranges of _spawn_random_enemies; the items outside the model's   *)
(* item database are names only.  The behaviours of SpecTiers walk into a   *)
(* location where one enemy has just been spawned, of any tier, with the    *)
(* least or the greatest health, any damage and any gear of its tier.       *)

scav_weapons ==
    {"pistol", "mp5", "akm", "ak74n", "shotgun", "mosin", "toz_106", "vpo_209",
     "tt_pistol", "pm_silenced"}
scav_armor_pieces == {"paca_armor", "tarbank_armor", None}
scav_helmets == {"ssh68_helmet", "un_helmet", "beanie", None}
armored_scav_weapons == {"ak74n", "akm", "mp5", "shotgun", "mosin", "svd", "m4a1"}
armored_scav_armor == {"kirasa_armor", "gen4_armor"}
armored_scav_helmets == {"kolpak_helmet", "altyn_helmet", "ssh68_helmet"}

\* The values random.randint and random.choice can return in each branch,
\* and the branch's base_hit_chance (percent).
TierTable ==
    [elite   |-> [names |-> {"USEC PMC", "Elite Scav"}, health |-> 150..250,
                  damage |-> 25..35, hit |-> {60},
                  weapons |-> armored_scav_weapons \cup {"svd", "m4a1"},
                  armors |-> {"gen4_armor", "kirasa_armor"},
                  helmets |-> {"altyn_helmet", "kolpak_helmet"}],
     armored |-> [names |-> {"Armored Scav"}, health |-> 70..120,
                  damage |-> 18..25, hit |-> {55},
                  weapons |-> armored_scav_weapons,
                  armors |-> armored_scav_armor,
                  helmets |-> armored_scav_helmets],
     regular |-> [names |-> {"Scav"}, health |-> 40..70,
                  damage |-> 10..18, hit |-> {45},
                  weapons |-> scav_weapons,
                  armors |-> scav_armor_pieces,
                  helmets |-> scav_helmets]]

Ends(range) ==
    {v \in range : \A w \in range : v <= w} \cup {v \in range : \A w \in range : v >= w}

\* The draws of one enemy of a tier, with a tier roll of that tier.
DrawsOf(tier, roll, loot) ==
    [type_roll : {roll}, name : TierTable[tier].names,
     health : Ends(TierTable[tier].health), damage : TierTable[tier].damage,
     loot : {loot}, weapon : TierTable[tier].weapons,
     armor : TierTable[tier].armors, helmet : TierTable[tier].helmets]

AllDraws ==
    DrawsOf("elite", 10, <<"wrench", "matches">>)
    \cup DrawsOf("armored", 20, <<"matches">>)
    \cup DrawsOf("regular", 70, <<>>)

InitTiers ==
    \E s \in {Outset(p) : p \in {q \in Marksmen : q.equipped_weapon = "akm"}} :
        /\ player = s.p
        /\ map = s.m
        /\ game = s.g
        /\ hideout_data = s.f
        /\ report = s.out
        /\ combat = NoCombat

Muster == Walk({50}, {<<d>> : d \in AllDraws})

NextTiers == Muster

SpecTiers == InitTiers /\ [][NextTiers]_vars

-----------------------------------------------------------------------------
(* Wounds.  In a raid of Spec the turn after a fight is the last one, so   *)
(* a bandage stops a bleeding only as the time runs out; the behaviours of *)
(* SpecWounds start at the raid prompt of any location, two turns before   *)
(* the end, with a player who bleeds and carries a bandage and a medkit,   *)
(* or does not bleed and carries two bandages.                             *)

Patients ==
    { [Holding("akm", armor, None, IF bleeding THEN <<"bandage", "medkit">>
                                   ELSE <<"bandage", "bandage">>) EXCEPT
          !.is_bleeding = bleeding, !.current_health = health,
          !.current_stamina = 60] :
        armor \in {None, "kirasa_armor"}, bleeding \in BOOLEAN, health \in {40, 90} }

Ward(loc, p) ==
    [Outset(p) EXCEPT !.g.current_location = loc, !.m[loc].visited = TRUE]

InitWounds ==
    \E s \in {Ward(loc, p) : loc \in Locations, p \in Patients} :
        /\ player = s.p
        /\ map = s.m
        /\ game = s.g
        /\ hideout_data = s.f
        /\ report = s.out
        /\ combat = NoCombat

NextWounds == Use \/ Rest \/ Look \/ Move \/ Extract \/ CombatRound \/ CombatFlee

SpecWounds == InitWounds /\ [][NextWounds]_vars

-----------------------------------------------------------------------------
(* Changes of weapon.  The behaviours of SpecArms start at the hideout      *)
(* prompt after an extraction, or at the prompt of a first raid near its    *)
(* end in a location with a Scav, with a player who holds the AKM, the      *)
(* pistol or no weapon and carries another weapon; the player equips and    *)
(* unequips, quits and launches again, starts a raid, moves and fights.     *)

Gunners ==
    { Holding(weapon, "kirasa_armor", None, <<spare, "medkit">>) :
        weapon \in {None, "akm", "pistol"}, spare \in {"akm", "pistol"} }

Armed(p) ==
    [Arena("medium", p, SpawnEnemy(ScavDraw)) EXCEPT !.g.fought = 0, !.out = "location"]

InitArms ==
    \E s \in {Armed(p) : p \in Gunners} \cup {LoadedHideout(p, <<>>) : p \in Gunners} :
        /\ player = s.p
        /\ map = s.m
        /\ game = s.g
        /\ hideout_data = s.f
        /\ report = s.out
        /\ combat = NoCombat

NextArms ==
    \/ Equip \/ Attack \/ Move \/ CombatRound \/ CombatFlee
    \/ HideoutEquip \/ HideoutRemove \/ StartRaid \/ HideoutQuit \/ Launch

SpecArms == InitArms /\ [][NextArms]_vars

-----------------------------------------------------------------------------
(* A first raid from its start to its end.  The behaviours of SpecTimed     *)
(* start right after _start_raid; the player looks, moves, rests, attacks,  *)
(* fights, asks for help, tries to extract or quits.  run() prompts again   *)
(* after every command, and the player of SpecTimed keeps typing commands   *)
(* that count as a turn: the steps of Turn are weakly fair.                 *)

InitTimed ==
    \E start \in Locations :
        \E spawn \in MapDraws(InitialMap) :
            LET s == _start_raid(Game_init(NoFile), start, spawn) IN
            /\ player = s.p
            /\ map = s.m
            /\ game = s.g
            /\ hideout_data = s.f
            /\ report = s.out
            /\ combat = NoCombat

\* The commands with valid_action_performed, quit apart.
Turn == Look \/ Move \/ Rest \/ Attack \/ Extract

NextTimed ==
    \/ Look \/ Move \/ Rest \/ Attack \/ Extract \/ RaidHelp \/ RaidQuit
    \/ CombatRound \/ CombatFlee

SpecTimed == InitTimed /\ [][NextTimed]_vars /\ WF_vars(Turn)

-----------------------------------------------------------------------------
(* Properties.                                                             *)

\* The kinds of step, read off the two states of the step.
RaidPrompt == ~game.game_over /\ ~game.in_hideout /\ ~combat.active
HideoutPrompt == ~game.game_over /\ game.in_hideout
\* The raid ends by extraction in this step, or it ends without one.
Extracts == ~game.game_over /\ ~game.in_hideout /\ game'.in_hideout
RaidLost == ~game.game_over /\ ~game.in_hideout /\ game'.game_over /\ ~game'.in_hideout
\* The program is run again after a raid that was lost.
RelaunchAfterLoss == game.game_over /\ ~game.in_hideout /\ ~game'.game_over
Rejected == report' \in {"invalid", "ambiguous"}

RecordHoldsGear(f, p) ==
    /\ f.player_inventory = p.inventory
    /\ f.equipped_weapon = p.equipped_weapon
    /\ f.equipped_armor = p.equipped_armor
    /\ f.equipped_helmet = p.equipped_helmet

RecordHoldsNoGear(f) ==
    /\ f.player_inventory = <<>>
    /\ f.equipped_weapon = None
    /\ f.equipped_armor = None
    /\ f.equipped_helmet = None

NoGear(p) ==
    /\ p.inventory = <<>>
    /\ p.equipped_weapon = None
    /\ p.equipped_armor = None
    /\ p.equipped_helmet = None

SameGear(p, q) ==
    /\ p.inventory = q.inventory
    /\ p.equipped_weapon = q.equipped_weapon
    /\ p.equipped_armor = q.equipped_armor
    /\ p.equipped_helmet = q.equipped_helmet

C2_NoGearAfterDeath ==
    [][ RelaunchAfterLoss /\ player.current_health <= 0 => NoGear(player') ]_vars

\* C3: after a raid lost by death or timeout, the roubles and the storage the
\* player has on return are those held when start_raid ran (the values the
\* checkpoint record holds).
C3_RoublesAndStorageAfterLoss ==
    [][ RelaunchAfterLoss /\ (player.current_health <= 0 \/ game.raid_timer <= 0)
          => /\ player'.roubles = hideout_data.player_roubles
             /\ game'.hideout_storage = hideout_data.hideout_storage ]_vars

C5_ExtractFailsElsewhere ==
    [][ /\ RaidPrompt /\ report' \in {"extracted", "extract_failed"}
        /\ ~(is_extraction_point[game.current_location]
             /\ map[game.current_location].enemies = <<>>)
        => /\ report' = "extract_failed"
           /\ ~game'.in_hideout
           /\ game'.raid_count = game.raid_count
           /\ player'.is_bleeding = player.is_bleeding
           /\ SameGear(player', player)
           /\ hideout_data' = hideout_data
           /\ (player'.current_health = player.current_health \/ player.is_bleeding) ]_vars

\* An extract was refused away from the extraction point.
C5_Witness ==
    /\ report = "extract_failed" /\ ~game.in_hideout
    /\ ~is_extraction_point[game.current_location]
    /\ game.raid_count = 0

\* C6: right after start_raid the game is in a raid, the countdown is 100,
\* health and stamina are at their maxima, bleeding is false, the current
\* location is one of the world graph, every other location is unvisited,
\* and every enemy present was created by this start_raid.
C6_StartRaidResets ==
    [][ HideoutPrompt /\ ~game'.in_hideout
        => /\ game'.raid_timer = 100
           /\ player'.current_health = MAX_HEALTH
           /\ player'.current_stamina = MAX_STAMINA
           /\ ~player'.is_bleeding
           /\ game'.current_location \in Locations
           /\ \A l \in Locations \ {game'.current_location} : ~map'[l].visited
           /\ \A l \in Locations : \A k \in DOMAIN map'[l].enemies :
                 map'[l].enemies[k].raid = game'.raids_begun ]_vars

\* The second raid of a run has begun, with enemies in the world.
C6_Witness ==
    /\ ~game.in_hideout /\ game.raid_timer = 100 /\ game.raids_begun = 2
    /\ \E l \in Locations : map[l].enemies # <<>>

\* C7: in a raid each legal action takes exactly 1 off the countdown, however
\* many combat rounds and enemies it involves (nothing while the fights go
\* on, 1 when the action ends), and an invalid or ambiguous command leaves
\* the countdown as it is.
C7_OnePerAction ==
    [][ /\ RaidPrompt /\ Rejected => game'.raid_timer = game.raid_timer
        /\ RaidPrompt /\ ~combat'.active
             /\ report' \notin {"invalid", "ambiguous", "hint", "help", "quit"}
             => game'.raid_timer = game.raid_timer - 1
        /\ ~game.game_over /\ ~game.in_hideout /\ combat'.active
             => game'.raid_timer = game.raid_timer
        /\ combat.active /\ ~combat'.active
             => game'.raid_timer = game.raid_timer - 1 ]_vars

\* One turn into the active part of a raid, after a move that met two
\* enemies (the wounds of both: 25 and 65).
C7_Witness ==
    /\ ~game.in_hideout /\ ~combat.active /\ ~game.game_over
    /\ game.raid_timer = MaxActiveTurns - 1
    /\ player.current_health = MAX_HEALTH - 90

\* C8: whenever an action brings the countdown to 0, the raid ends as a
\* loss: the game ends, the game is not in the hideout, and the record is
\* still the start_raid checkpoint, without inventory or equipment.
C8_TimeoutIsLoss ==
    [][ ~game.game_over /\ ~game.in_hideout /\ game.raid_timer > 0
          /\ game'.raid_timer = 0
        => /\ game'.game_over
           /\ ~game'.in_hideout
           /\ hideout_data' = hideout_data
           /\ RecordHoldsNoGear(hideout_data') ]_vars

\* C9: a hideout command typed in a raid, and a raid command typed in the
\* hideout, is rejected and changes no game state; and no hideout command
\* other than start_raid changes the countdown.
C9_OtherModeRejected ==
    [][ /\ (RaidPrompt \/ HideoutPrompt) /\ report' = "invalid"
          => UNCHANGED <<player, map, game, hideout_data>>
        /\ HideoutPrompt /\ game'.in_hideout
          => game'.raid_timer = game.raid_timer ]_vars

\* C10: an invalid or ambiguous command, in a raid or in the hideout, changes
\* no game state: health, stamina, bleeding, alive flag, location, inventory,
\* equipment, enemies, record and countdown, also when the player is bleeding.
C10_RejectedChangesNothing ==
    [][ (RaidPrompt \/ HideoutPrompt) /\ Rejected
          => /\ player' = player
             /\ map' = map
             /\ hideout_data' = hideout_data
             /\ game'.current_location = game.current_location
             /\ game'.raid_timer = game.raid_timer
             /\ game'.game_over = game.game_over ]_vars

\* C11: in the hideout the durable state is always fully committed: whenever
\* the game waits for a hideout command, the record equals the roubles, the
\* storage, the inventory and the three equipped items in memory.  (Stated
\* here for the states with a record and a raid count of at least 1, where
\* no starting loadout is granted at launch.)
C11_HideoutCommitted ==
    InHideout /\ hideout_data.exists /\ game.raid_count >= 1
        => /\ hideout_data.player_roubles = player.roubles
           /\ hideout_data.hideout_storage = game.hideout_storage
           /\ RecordHoldsGear(hideout_data, player)

\* Occurrences of the item i wherever items lie: with the player, on the
\* ground and in the containers of every location, in storage, in the shop.
RECURSIVE CountIn(_, _, _)
CountIn(lists, i, k) ==
    IF k > Len(lists) THEN 0 ELSE Count(lists[k], i) + CountIn(lists, i, k + 1)

Occurrences(p, m, g, i) ==
    Count(p.inventory, i)
    + Count(<<p.equipped_weapon, p.equipped_armor, p.equipped_helmet>>, i)
    + Count(g.hideout_storage, i) + Count(g.shop_inventory, i)
    + CountIn([k \in DOMAIN map_order |-> m[map_order[k]].items], i, 1)
    + CountIn([k \in DOMAIN map_order |->
                  IF m[map_order[k]].containers = <<>> THEN <<>>
                  ELSE m[map_order[k]].containers[1].items], i, 1)

Carried(p, i) ==
    Count(p.inventory, i)
    + Count(<<p.equipped_weapon, p.equipped_armor, p.equipped_helmet>>, i)

\* C12: after any sequence of get, search, buy, take, put, equip, unequip
\* and drop the weight the player carries (inventory plus equipped items) is
\* at most the player's capacity and the weight in storage at most the
\* storage's capacity; a transfer of an item that would exceed the capacity
\* of its destination is rejected (the destination does not gain the item),
\* and no step changes the number of occurrences of an item, so the rejected
\* item stays in its source.
C12_WithinCapacity ==
    /\ [](/\ get_current_weight(player) <= MAX_INVENTORY_WEIGHT
          /\ WeightOf(game.hideout_storage) <= MAX_HIDEOUT_STORAGE_WEIGHT)
    /\ [][ \A i \in ItemNames :
            /\ Occurrences(player', map', game', i) = Occurrences(player, map, game, i)
            /\ get_current_weight(player) + weight(i) > MAX_INVENTORY_WEIGHT
                 => Carried(player', i) <= Carried(player, i)
            /\ WeightOf(game.hideout_storage) + weight(i) > MAX_HIDEOUT_STORAGE_WEIGHT
                 => Count(game'.hideout_storage, i) <= Count(game.hideout_storage, i) ]_vars

\* The player went from 970 to exactly the 1000 units of capacity by picking
\* up a pistol, and then was refused the second pistol lying there.
C12_Witness ==
    /\ ~game.in_hideout /\ get_current_weight(player) = MAX_INVENTORY_WEIGHT
    /\ Count(player.inventory, "pistol") = 1
    /\ map[game.current_location].items = <<"pistol">>
    /\ game.raid_timer = MaxActiveTurns - 2

\* C13: in every reachable state an item is equipped in at most one of the
\* three slots, and no item that occupies a slot is also in the player's
\* inventory list, also after the player picked up a second occurrence of
\* the item that is equipped.
C13_EquippedOnce ==
    LET slots == <<player.equipped_weapon, player.equipped_armor, player.equipped_helmet>> IN
    \A i \in ItemNames :
        /\ Count(slots, i) <= 1
        /\ Count(slots, i) = 1 => Count(player.inventory, i) = 0

\* Every enemy of every location.
Enemies ==
    {map[l].enemies[k] : <<l, k>> \in {x \in Locations \X (1..3) : x[2] <= Len(map[x[1]].enemies)}}

\* C14: in every reachable state the player's health and stamina lie in
\* [0, max], and so does every enemy's health; a character's alive flag is
\* false exactly when its health is 0; the player's death ends the game in
\* the step in which the health reaches 0, and within a run of the program
\* the flag never becomes true again.
C14_ClampedAndDeadOnce ==
    /\ [](/\ 0 <= player.current_health /\ player.current_health <= MAX_HEALTH
          /\ 0 <= player.current_stamina /\ player.current_stamina <= MAX_STAMINA
          /\ player.is_alive <=> player.current_health > 0
          /\ ~player.is_alive => game.game_over
          /\ \A e \in Enemies :
                /\ 0 <= e.current_health /\ e.current_health <= e.max_health
                /\ e.is_alive <=> e.current_health > 0)
    /\ [][ ~game.game_over => (player'.is_alive => player.is_alive) ]_vars

\* The player was killed in a fight (health 0, not alive) at less than full
\* stamina, next to an enemy that is itself wounded.
C14_Witness ==
    /\ player.current_health = 0 /\ ~player.is_alive /\ game.game_over
    /\ player.current_stamina < MAX_STAMINA
    /\ \E e \in Enemies : e.current_health < e.max_health

\* C15: every enemy is in the enemy list of exactly one location at a time
\* (the one it was created in), and whenever control is with the player no
\* location's enemy list holds a dead enemy: an enemy whose health reaches 0
\* is removed from its location in the same action.
C15_EnemiesInPlaceAndAlive ==
    \A l \in Locations : \A k \in DOMAIN map[l].enemies :
        /\ map[l].enemies[k].home = l
        /\ map[l].enemies[k].is_alive
        /\ map[l].enemies[k].current_health > 0

\* A Scav was killed and removed (its pistol lies on the ground) while the
\* enemy it came with is still in the location.
C15_Witness ==
    /\ ~game.in_hideout /\ ~combat.active
    /\ Count(map[game.current_location].items, "pistol") > 0
    /\ Len(map[game.current_location].enemies) = 1
    /\ map[game.current_location].enemies[1].name = "USEC PMC"

\* C16: when an enemy dies, the ground of its location gains its equipped
\* weapon exactly once: the number of occurrences of that weapon on the
\* ground grows by 1 in the step that removes the enemy.
C16_WeaponDroppedOnce ==
    [][ LET here == game.current_location IN
        combat.active /\ Len(map'[here].enemies) < Len(map[here].enemies)
        => LET e == map[here].enemies[combat.target] IN
           Count(map'[here].items, e.equipped_weapon)
              = Count(map[here].items, e.equipped_weapon) + 1 ]_vars

\* C17: a launch from a file the loader cannot read through ends in the
\* default new-game state: the starting roubles, an empty storage, raid
\* count 0, full health and stamina, no bleeding and the starting loadout;
\* nothing of the file is kept.
C17_MalformedStartsFresh ==
    [][ game.game_over /\ ~game'.game_over /\ Fault(hideout_data) # None
        => /\ player' = StartingLoadout(NewPlayer)
           /\ player'.roubles = STARTING_ROUBLES
           /\ player'.current_health = MAX_HEALTH
           /\ player'.current_stamina = MAX_STAMINA
           /\ ~player'.is_bleeding
           /\ game'.hideout_storage = <<>>
           /\ game'.raid_count = 0 ]_vars

\* C18: the starting roubles and loadout are granted at launch exactly when
\* there is no file; with a file the program wrote, the roubles, inventory
\* and equipment after the launch are those of the file.
C18_LoadoutOnlyWithoutRecord ==
    [][ game.game_over /\ ~game'.game_over
        => IF hideout_data.exists
           THEN /\ player'.roubles = hideout_data.player_roubles
                /\ RecordHoldsGear(hideout_data, player')
           ELSE player' = StartingLoadout(NewPlayer) ]_vars

\* C19: a fight, once started, goes on round by round and ends only when
\* the player died, the enemy was defeated or a flee succeeded: inside a
\* fight both fighters are alive, and a step of the fight either stays in
\* it, one round further with both alive, or leaves it with one of the
\* three outcomes.
C19_CombatEndsInThreeWays ==
    /\ [](combat.active
            => /\ ~game.game_over /\ player.is_alive /\ player.current_health > 0
               /\ combat.target \in 1..Len(map[game.current_location].enemies)
               /\ map[game.current_location].enemies[combat.target].is_alive)
    /\ [][ combat.active
            => LET here == game.current_location
                   PlayerDied == player'.current_health = 0 /\ game'.game_over
                   EnemyDefeated ==
                       Len(map'[here].enemies) = Len(map[here].enemies) - 1
                   Fled == game'.current_location # here
               IN  IF combat'.active /\ combat'.rounds = combat.rounds + 1
                   THEN /\ combat'.target = combat.target
                        /\ combat'.queue = combat.queue
                        /\ game'.current_location = here
                        /\ player'.is_alive
                        /\ map'[here].enemies[combat.target].is_alive
                   ELSE PlayerDied \/ EnemyDefeated \/ Fled ]_vars

\* A fight in its last modelled round: the rounds before it left both
\* fighters alive.
C19_Witness ==
    /\ combat.active /\ combat.rounds = MaxRounds
    /\ player.is_alive
    /\ map[game.current_location].enemies[combat.target].is_alive

\* C20: in a fight at a location of the very short, short, medium or long
\* range class the player's hit chance is between 10 and 95 percent, and it
\* is 75 plus the entry of the table: 95 and 60 for a very short and a long
\* weapon at a very short location, 95 and 45 for a long and a very short
\* weapon at a long location, 85 for a medium weapon at a medium location.
C20_HitChanceMatrix ==
    combat.active /\ map[game.current_location].range_type \in RangeClasses
    => LET l == map[game.current_location].range_type
           w == item_database[player.equipped_weapon].range
           chance == final_hit_chance(Self)
       IN  /\ 10 <= chance /\ chance <= 95
           /\ l = "very_short" /\ w = "very_short" => chance = 95
           /\ l = "very_short" /\ w = "long" => chance = 60
           /\ l = "long" /\ w = "long" => chance = 95
           /\ l = "long" /\ w = "very_short" => chance = 45
           /\ l = "medium" /\ w = "medium" => chance = 85

\* The second round of a fight at a long location with the shotgun, the
\* first shot having hit.
C20_Witness ==
    /\ combat.active /\ combat.rounds >= 1
    /\ map[game.current_location].range_type = "long"
    /\ player.equipped_weapon = "shotgun"
    /\ LET e == map[game.current_location].enemies[combat.target] IN
       e.current_health < e.max_health

\* C21: the chance of a flee is 80 percent less one point per kilogram
\* carried (inventory and equipped items; weights are in 1/20 kg), and not
\* under 10 percent: a roll succeeds exactly when it is under that chance,
\* and of two fighters the one who carries more has the smaller chance.
C21_FleeChance ==
    LET w == get_current_weight(player) IN
    /\ flee_chance(player) >= 20 * MAX_INVENTORY_WEIGHT
    /\ \A roll \in {0, 9, 10, 30, 50, 79, 80, 99} :
          FleeSucceeds(player, roll) <=> 20 * roll < Max(200, 1600 - w)
    /\ \A q \in Fighters \cup Loadouts :
          get_current_weight(q) > w => flee_chance(q) < flee_chance(player)

\* A fighter with more than 30 kg has got away.
C21_Witness ==
    /\ ~combat.active /\ ~game.game_over
    /\ game.current_location # "customs_main"
    /\ get_current_weight(player) > 600

\* C22: a location holds no enemies or the one to three of a spawn, and
\* each spawned enemy is of the tier its own roll selects: of the top tier
\* (USEC PMC or Elite Scav) under 0.15, an Armored Scav from 0.15 to under
\* 0.40, a Scav from 0.40; the roll 0.10 gives the top tier.
C22_SpawnTiers ==
    \A l \in Locations :
        /\ Len(map[l].enemies) <= 3
        /\ \A k \in DOMAIN map[l].enemies :
              LET e == map[l].enemies[k] IN
              e.roll >= 0 =>
                 /\ e.roll < 15 <=> e.name \in {"USEC PMC", "Elite Scav"}
                 /\ (15 <= e.roll /\ e.roll < 40) <=> e.name = "Armored Scav"
                 /\ e.roll >= 40 <=> e.name = "Scav"
                 /\ e.roll = 10 => e.name \in {"USEC PMC", "Elite Scav"}
                                    /\ e.base_hit_chance = 60

\* Three enemies were spawned at once: one of the top tier from the roll
\* 0.10, an Armored Scav and a Scav.
C22_Witness ==
    \E l \in Locations :
        /\ Len(map[l].enemies) = 3
        /\ map[l].enemies[1].roll = 10 /\ map[l].enemies[1].name = "USEC PMC"
        /\ map[l].enemies[2].name = "Armored Scav"
        /\ map[l].enemies[3].name = "Scav"

\* C23: in a fight at a location of the range class close the player's
\* chance to hit is the one of the very_short row of the matrix (+20 for a
\* very_short weapon, +10 short, -5 medium, -15 long, on 75 percent) and
\* the enemy's is its base chance plus 10.
C23_CloseIsVeryShort ==
    combat.active /\ map[game.current_location].range_type = "close"
    => LET w == item_database[player.equipped_weapon].range
           e == map[game.current_location].enemies[combat.target]
       IN  /\ final_hit_chance(Self)
                = 75 + (CASE w = "very_short" -> 20 [] w = "short" -> 10
                          [] w = "medium" -> -5 [] w = "long" -> -15)
           /\ enemy_final_hit_chance(Self, e) = e.base_hit_chance + 10

\* C24: a round leaves the enemy with its health less d, and not under 0,
\* where d is 0 (a miss) or max(0, m * raw - defense) * k for a hit on the
\* head or the body: raw the player's damage plus the damage roll, m = 2 on
\* the head, defense the enemy's own plus the helmet's (head) or the
\* armor's (body), k = 2 on a head without a helmet; an enemy that is
\* removed from the location was hit for at least its health.
C24_PlayerHitsEnemy ==
    [][ combat.active =>
        LET here == game.current_location
            e == map[here].enemies[combat.target]
            gear(x) == IF x = None THEN 0 ELSE item_database[x].defense
            dealt(part, raw) ==
                IF part = "head"
                THEN Max(0, 2 * raw - (e.defense + gear(e.equipped_helmet)))
                        * (IF e.equipped_helmet = None THEN 2 ELSE 1)
                ELSE Max(0, raw - (e.defense + gear(e.equipped_armor)))
            ds == {0} \cup {dealt(part, player.damage + r) :
                                part \in {"head", "body"}, r \in {-5, 5}}
        IN  IF game'.current_location # here THEN TRUE
            ELSE IF Len(map'[here].enemies) < Len(map[here].enemies)
            THEN \E d \in ds : d >= e.current_health
            ELSE LET after == map'[here].enemies[combat.target] IN
                 /\ after.current_health > 0 /\ after.is_alive
                 /\ \E d \in ds : after.current_health = e.current_health - d
      ]_vars

\* A top-tier enemy with helmet and armor has been hit and lives on, and the
\* player holds the pistol, whose weakest shot the armor stops.
C24_Witness ==
    /\ combat.active /\ combat.rounds >= 1
    /\ player.equipped_weapon = "pistol"
    /\ LET e == map[game.current_location].enemies[combat.target] IN
       /\ e.equipped_helmet = "altyn_helmet" /\ e.equipped_armor = "gen4_armor"
       /\ e.current_health < e.max_health

\* C25: a round or a failed flee that goes on with the fight leaves the
\* player with the health less e, where e is 0 (no hit) or, for a hit on
\* the head or the body, max(0, raw * m - defense), times 1.5 and rounded
\* down on a head without a helmet: raw the enemy's damage plus the damage
\* roll, m = 2 on the head, defense the helmet's (head) or the armor's
\* (body), 0 without one; and a player who is killed was hit for at least
\* the health.
C25_EnemyHitsPlayer ==
    [][ combat.active /\ game'.current_location = game.current_location
        /\ Len(map'[game.current_location].enemies)
              = Len(map[game.current_location].enemies) =>
        LET e == map[game.current_location].enemies[combat.target]
            gear(x) == IF x = None THEN 0 ELSE item_database[x].defense
            taken(part, raw) ==
                IF part = "head"
                THEN LET x == Max(0, raw * 2 - gear(player.equipped_helmet)) IN
                     IF player.equipped_helmet = None THEN (x * 3) \div 2 ELSE x
                ELSE Max(0, raw - gear(player.equipped_armor))
            es == {0} \cup {taken(part, e.damage + r) :
                                part \in {"head", "body"}, r \in {-3, 0}}
        IN  IF game'.game_over
            THEN \E x \in es : x >= player.current_health
            ELSE \E x \in es : /\ x < player.current_health
                                /\ player'.current_health = player.current_health - x
      ]_vars

\* The fight goes on after hits that took health from a player who wears a
\* helmet and an armor.
C25_Witness ==
    /\ combat.active /\ combat.rounds >= 1
    /\ player.equipped_helmet = "kolpak_helmet" /\ player.equipped_armor = "gen4_armor"
    /\ player.current_health < MAX_HEALTH - 60

\* C26: the round in which the player's attack kills the enemy ends there:
\* the enemy has no turn, so the round leaves the player's stamina and
\* bleeding flag as they were and the health too (a player who bleeds loses
\* the handler's one bleeding tick, at most 5), and when the step is over
\* the enemy is off the location's list and its gear and loot lie on the
\* ground.
C26_KillEndsRound ==
    [][ combat.active /\ game'.current_location = game.current_location
        /\ Len(map'[game.current_location].enemies)
              < Len(map[game.current_location].enemies) =>
        LET here == game.current_location
            e == map[here].enemies[combat.target]
            dropped == SelectSeq(<<e.equipped_weapon, e.equipped_armor,
                                   e.equipped_helmet>>, LAMBDA x : x # None)
                       \o e.loot_items
        IN  /\ player'.current_stamina = player.current_stamina
            /\ player'.is_bleeding = player.is_bleeding
            /\ IF player.is_bleeding
               THEN /\ player'.current_health <= player.current_health
                    /\ player'.current_health >= player.current_health - 5
               ELSE player'.current_health = player.current_health
            /\ \A k \in DOMAIN map'[here].enemies :
                  map'[here].enemies[k].is_alive
            /\ Len(map'[here].enemies) = Len(map[here].enemies) - 1
            /\ map'[here].items = map[here].items \o dropped
      ]_vars

\* The Scav is dead after a second round, its pistol is on the ground (as
\* its weapon and as the last of its loot items), and the player, hit in the
\* first round, bleeds.
C26_Witness ==
    /\ ~combat.active /\ ~game.game_over
    /\ game.current_location = "customs_main"
    /\ map["customs_main"].enemies = <<>>
    /\ map["customs_main"].items = <<"pistol", "pistol">>
    /\ player.is_bleeding /\ player.current_health < MAX_HEALTH - 10

\* C27: a round or a failed flee after which the fight goes on (the enemy
\* has acted, with a hit or a miss) gives the player 5 stamina, up to the
\* maximum.
C27_StaminaAfterEnemyAction ==
    [][ combat.active /\ combat'.active /\ ~game'.game_over
        /\ game'.current_location = game.current_location
        /\ Len(map'[game.current_location].enemies)
              = Len(map[game.current_location].enemies)
        => player'.current_stamina = Min(MAX_STAMINA, player.current_stamina + 5)
      ]_vars

\* C28: a command at the raid prompt that leaves a bleeding player at the
\* raid prompt with the same inventory and equipment (so nothing was used,
\* taken or dropped) costs the player 2 to 5 health, whatever is worn.
C28_BleedingIgnoresDefense ==
    [][ RaidPrompt /\ RaidPrompt' /\ player.is_bleeding /\ player'.is_bleeding
        /\ player'.inventory = player.inventory
        /\ player'.equipped_weapon = player.equipped_weapon
        /\ player'.equipped_armor = player.equipped_armor
        /\ player'.equipped_helmet = player.equipped_helmet
        => \E tick \in 2..5 : player'.current_health = player.current_health - tick
      ]_vars

\* C29: a step of the running program after which a player who bled no
\* longer bleeds is the use of a bandage or tourniquet at the raid prompt
\* (one of them leaves the inventory) or an extraction; and a player who
\* does not bleed loses no bandage or tourniquet by a command of the raid
\* (none of the commands of SpecWounds drops or sells an item).
C29_BleedingIsStanding ==
    [][ LET cures == {"bandage", "esmarch"}
            held(p) == Cardinality({k \in DOMAIN p.inventory : p.inventory[k] \in cures})
        IN  /\ ~game.game_over /\ player.is_bleeding /\ ~player'.is_bleeding
               => \/ RaidPrompt /\ held(player') = held(player) - 1
                                /\ player'.current_health = player.current_health
                  \/ Extracts
            /\ RaidPrompt /\ ~player.is_bleeding => held(player') = held(player)
      ]_vars

\* The bandage is gone, the medkit is left, and the player no longer bleeds
\* and is still in the raid.
C29_Witness ==
    /\ RaidPrompt /\ ~player.is_bleeding
    /\ player.inventory = <<"medkit">>

\* C30: a hit leaves the player bleeding exactly when the player bled
\* before, or damage came through and the hit was on a head without a
\* helmet or the roll was under 25 percent; so in a fight a player who did
\* not bleed and lost no health does not bleed, a player who bled still
\* does, and a hit on the bare head that took health always leaves the
\* player bleeding.
C30_BleedingStarts ==
    /\ [](combat.active =>
            \A amount \in {0, 5, 12, 15, 24, 30}, part \in {"head", "body"},
               roll \in {0, 24, 25, 99} :
                LET gear(x) == IF x = None THEN 0 ELSE item_database[x].defense
                    through == amount > (IF part = "head" THEN gear(player.equipped_helmet)
                                         ELSE gear(player.equipped_armor))
                    bare == part = "head" /\ player.equipped_helmet = None
                IN  Player_take_damage(player, amount, part, roll).is_bleeding
                    <=> player.is_bleeding \/ (through /\ (bare \/ roll < 25)))
    /\ [][ combat.active /\ combat'.active
           /\ game'.current_location = game.current_location
           /\ Len(map'[game.current_location].enemies)
                 = Len(map[game.current_location].enemies) =>
           LET e == map[game.current_location].enemies[combat.target]
               lost == player.current_health - player'.current_health
           IN  /\ player.is_bleeding => player'.is_bleeding
               /\ ~player.is_bleeding /\ lost = 0 => ~player'.is_bleeding
               /\ player.equipped_helmet = None
                  /\ lost \in {3 * (e.damage + r) : r \in {-3, 0}}
                  => player'.is_bleeding
         ]_vars

\* The fight goes on with a player who wears a helmet, has lost health and
\* bleeds (from a roll under 25 percent).
C30_Witness ==
    /\ combat.active /\ combat.rounds >= 1
    /\ player.equipped_helmet = "kolpak_helmet"
    /\ player.is_bleeding
    /\ player.current_health < MAX_HEALTH

\* C31: for the same draws (damage roll, hit roll, aim, sub-roll of a head
\* aim, bleeding roll) the counter-attack after a failed flee leaves the
\* player with the health and the bleeding flag that a normal enemy turn
\* with the enemy's base chance to hit leaves.
C31_CounterAttackAsEnemyTurn ==
    combat.active =>
        LET e == map[game.current_location].enemies[combat.target] IN
        \A d \in [edmg : {-3, 0, 3}, ehit : {0, 99}, aim : {"head", "body"},
                   esub : {0, 29, 30, 99}, bleed : {0, 99}] :
            LET bonus == counter_attack(player, e, d)
                turn  == enemy_turn(player, e, e.base_hit_chance, d)
            IN  /\ bonus.current_health = turn.current_health
                /\ bonus.is_bleeding = turn.is_bleeding

\* C32: a flee that succeeds takes the player through an exit of the
\* location fled from; the enemies of that location stay on its list as
\* they were, alive; elsewhere enemies appear only where the encounter
\* generator may put them (a location without enemies that is no extraction
\* point), fresh; and the flee costs no health and no time: the health is
\* unchanged but for the one bleeding tick of the command that ends, and
\* the countdown is unchanged but for the one turn of that command.
C32_FleeSucceeds ==
    [][ combat.active /\ game'.current_location # game.current_location =>
        LET here == game.current_location IN
        /\ \E dir \in DOMAIN exits[here] : game'.current_location = exits[here][dir]
        /\ map'[here].enemies = map[here].enemies
        /\ map[here].enemies[combat.target].is_alive
        /\ \A l \in Locations \ {here} :
              \/ map'[l].enemies = map[l].enemies
              \/ /\ map[l].enemies = <<>> /\ ~is_extraction_point[l]
                 /\ \A k \in DOMAIN map'[l].enemies :
                       /\ map'[l].enemies[k].is_alive
                       /\ map'[l].enemies[k].current_health = map'[l].enemies[k].max_health
                       /\ map'[l].enemies[k].roll >= 0
        /\ IF combat'.active
           THEN /\ player'.current_health = player.current_health
                /\ game'.raid_timer = game.raid_timer
           ELSE /\ game'.raid_timer = game.raid_timer - 1
                /\ player'.current_health <= player.current_health
                /\ player'.current_health >= player.current_health - 5
                /\ ~player.is_bleeding => player'.current_health = player.current_health
      ]_vars

\* The player is at the prompt of another location than a living enemy
\* that has been hit: the player got away from a fight that had begun.
C32_Witness ==
    /\ RaidPrompt
    /\ \E l \in Locations \ {game.current_location} :
          \E k \in DOMAIN map[l].enemies :
              /\ map[l].enemies[k].is_alive
              /\ map[l].enemies[k].current_health < map[l].enemies[k].max_health
              /\ map[l].enemies[k].raid = game.raids_begun

\* C33: a run of the encounter generator from any state of a raid, with any
\* draws, changes nothing but enemy lists, and none of a location that
\* holds enemies or is an extraction point; and within a raid no step adds
\* an enemy to such a location.
C33_GeneratorFrame ==
    /\ [](~game.in_hideout /\ ~game.game_over =>
            \A d \in MapDraws(map) :
                LET r == _spawn_random_enemies(Self, d) IN
                /\ r.p = player /\ r.g = game /\ r.f = hideout_data /\ r.out = report
                /\ \A l \in Locations :
                      /\ r.m[l].items = map[l].items
                      /\ r.m[l].containers = map[l].containers
                      /\ r.m[l].visited = map[l].visited
                      /\ r.m[l].range_type = map[l].range_type
                      /\ map[l].enemies # <<>> \/ is_extraction_point[l]
                         => r.m[l].enemies = map[l].enemies)
    /\ [][ ~game.in_hideout /\ ~game.game_over /\ ~game'.in_hideout =>
           \A l \in Locations :
               map[l].enemies # <<>> \/ is_extraction_point[l]
               => Len(map'[l].enemies) <= Len(map[l].enemies)
         ]_vars

\* A run of the generator has put fresh enemies into the location where the
\* player now stands, and the enemy of another location, hit before the
\* player got away from it, is as it was.
C33_Witness ==
    /\ RaidPrompt
    /\ map[game.current_location].enemies # <<>>
    /\ \A k \in DOMAIN map[game.current_location].enemies :
          map[game.current_location].enemies[k].current_health
             = map[game.current_location].enemies[k].max_health
    /\ \E l \in Locations \ {game.current_location} :
          \E k \in DOMAIN map[l].enemies :
              map[l].enemies[k].current_health < map[l].enemies[k].max_health

\* C34: every spawned enemy has the statistics of its tier in the tier
\* table, and the code can draw each value of the table: top tier health
\* 150..250, damage 25..45, hit chance 60..85 percent; Armored Scav health
\* 70..120, damage 18..25, hit chance 55, with armor and helmet; Scav health
\* 40..70, damage 10..18, hit chance 45, with or without armor and helmet.
C34_TierStatistics ==
    LET table == [elite   |-> [health |-> 150..250, damage |-> 25..45, hit |-> 60..85],
                  armored |-> [health |-> 70..120, damage |-> 18..25, hit |-> {55}],
                  regular |-> [health |-> 40..70, damage |-> 10..18, hit |-> {45}]]
        tier(e) == IF e.name = "Scav" THEN "regular"
                   ELSE IF e.name = "Armored Scav" THEN "armored" ELSE "elite"
    IN  /\ \A l \in Locations : \A k \in DOMAIN map[l].enemies :
              LET e == map[l].enemies[k] IN
              e.roll >= 0 =>
                 /\ e.max_health \in table[tier(e)].health
                 /\ e.damage \in table[tier(e)].damage
                 /\ e.base_hit_chance \in table[tier(e)].hit
                 /\ tier(e) = "armored"
                    => e.equipped_armor # None /\ e.equipped_helmet # None
        /\ \A t \in DOMAIN table :
              /\ table[t].health \subseteq TierTable[t].health
              /\ table[t].damage \subseteq TierTable[t].damage
              /\ table[t].hit \subseteq TierTable[t].hit
        /\ None \in TierTable["regular"].armors
        /\ None \in TierTable["regular"].helmets

\* C35: no weapon, armor or helmet of a spawned enemy is in the pool of
\* another tier.
C35_DisjointPools ==
    LET tier(e) == IF e.name = "Scav" THEN "regular"
                   ELSE IF e.name = "Armored Scav" THEN "armored" ELSE "elite"
    IN  \A l \in Locations : \A k \in DOMAIN map[l].enemies :
            LET e == map[l].enemies[k] IN
            e.roll >= 0 =>
               \A t \in DOMAIN TierTable \ {tier(e)} :
                   /\ e.equipped_weapon \notin TierTable[t].weapons
                   /\ e.equipped_armor \notin TierTable[t].armors \ {None}
                   /\ e.equipped_helmet \notin TierTable[t].helmets \ {None}

\* C36: whenever a weapon is equipped the player's damage value is that
\* weapon's damage, and a fight is on only with a weapon equipped; so the
\* raw damage of a round, the damage value plus the roll in -5..5, is the
\* equipped weapon's damage plus that roll.
C36_DamageOfEquippedWeapon ==
    /\ player.equipped_weapon # None
       => player.damage = item_database[player.equipped_weapon].damage
    /\ combat.active => player.equipped_weapon # None

\* A fight with the pistol, which the player equipped in this raid in place
\* of the AKM now carried.
C36_Witness ==
    /\ combat.active /\ combat.rounds >= 1
    /\ player.equipped_weapon = "pistol" /\ player.damage = 15
    /\ player.inventory = <<"medkit", "akm">>

\* C37: saving the hideout state with the equipped items and loading it at
\* the next launch is a round trip.  The launch after a quit at the hideout
\* prompt leaves the roubles, the storage, the inventory (every item as many
\* times as before), the three equipped items, the health, the stamina, the
\* bleeding flag and the raid count as they were when the player quit.
C37_SaveLoadRoundTrip ==
    [][ (game.game_over /\ game.in_hideout /\ report = "quit" /\ ~game'.game_over)
        => /\ player'.roubles = player.roubles
           /\ game'.hideout_storage = game.hideout_storage
           /\ \A i \in ItemNames :
                 Count(player'.inventory, i) = Count(player.inventory, i)
           /\ player'.equipped_weapon = player.equipped_weapon
           /\ player'.equipped_armor = player.equipped_armor
           /\ player'.equipped_helmet = player.equipped_helmet
           /\ player'.current_health = player.current_health
           /\ player'.current_stamina = player.current_stamina
           /\ player'.is_bleeding = player.is_bleeding
           /\ game'.raid_count = game.raid_count ]_vars

\* C38: in a raid no extraction point holds an enemy, and an extract command
\* typed at an extraction point is never refused: the step that handles it
\* brings the player to the hideout.
C38_ExtractionPointsClear ==
    /\ [](~game.in_hideout
            => \A l \in Locations : is_extraction_point[l] => map[l].enemies = <<>>)
    /\ [][ (RaidPrompt /\ is_extraction_point[game.current_location])
            => report' # "extract_failed" ]_vars

\* The player has extracted while enemies are on the map.
C38_Witness ==
    /\ report = "extracted" /\ game.in_hideout
    /\ is_extraction_point[game.current_location]
    /\ \E l \in Locations : map[l].enemies # <<>>

\* C39: in a raid the countdown stays within 0..100 and no step of the raid
\* increases it; the raid is over when the countdown is 0, that is after at
\* most 100 commands that count; and if every fight ends, every raid ends
\* (the game is over or the player is back in the hideout) when the player
\* keeps typing commands that count.
C39_RaidEnds ==
    /\ [](/\ game.raid_timer \in 0..RAID_TIME
          /\ game.raid_timer = 0 => game.game_over)
    /\ [][ (~game.in_hideout /\ ~game.game_over)
            => /\ game'.raid_timer <= game.raid_timer
               /\ game'.raid_timer >= game.raid_timer - 1 ]_vars
    /\ ([]<>(~combat.active))
         => [](~game.in_hideout => <>(game.in_hideout \/ game.game_over))

\* A raid that ran out of time.
C39_Witness ==
    /\ game.raid_timer = 0 /\ game.game_over /\ ~game.in_hideout
    /\ player.is_alive /\ report # "quit"

\* C40: a successful flee from a fight that a move started is the end of
\* the fighting of that move: the step that takes the player from the
\* location with several enemies to the next one starts no fight, neither
\* with an enemy still queued nor with an enemy of the arrival location.
C40_FleeEndsTheMove ==
    [][ (/\ combat.active /\ combat.cmd = "move"
         /\ Len(map[game.current_location].enemies) > 1
         /\ game'.current_location # game.current_location)
        => ~combat'.active ]_vars

=============================================================================
